---- MODULE Spec2Model ----
(***************************************************************************)
(* Killmail matching core of zk-activity: the filter evaluator, the veto   *)
(* partitioner and process_killmail (src/src/processor.rs), over the       *)
(* enrichment maps and the standings map of AppState (src/src/config.rs).  *)
(*                                                                         *)
(* Conventions.  An Option<T> is a set with at most one element: None is   *)
(* {} and Some(x) is {x}.  A Vec is a sequence, a HashSet a set, a HashMap *)
(* a function.  ISK values, standings and light years are whole numbers;   *)
(* a security status is kept in hundredths.                                *)
(***************************************************************************)
EXTENDS Integers, Sequences, FiniteSets, TLC

VARIABLES
    subscriptions,          \* AppState.subscriptions: guild id -> Vec<Subscription>
    ships,                  \* AppState.ships: type id -> group id (the cache)
    systems,                \* AppState.systems: system id -> System (the cache)
    names,                  \* AppState.names: id -> name (the cache)
    tickers,                \* AppState.tickers: corporation or alliance id -> ticker
    user_standings,         \* AppState.user_standings: user id -> UserStandings
    esi_up,                 \* whether the catalog answers while this event is handled
    zk_data,                \* the event handed to process_killmail
    pc,                     \* position of run's loop: "listen", "sleep", "received" (event
                            \* polled), "processed" (process_killmail returned)
    matched_subscriptions,  \* the Vec process_killmail returns, less the entries handled
    disk,                   \* config/<guild id>.json: guild id -> Vec<Subscription>
    clock,                  \* Instant::now(), in seconds
    last_ping_times,        \* AppState.last_ping_times: channel id (u64) -> Instant
    attempts,               \* history: the calls of send_killmail_message, in order
    polled,                 \* history: the number of calls of listen
    last_poll,              \* history: how the last call of listen ended
    slept,                  \* history: whether run slept since the last call of listen
    displayed,              \* what select_best_entity_for_display returned
    task_pc,                \* position of each handler that writes the subscription map
    file_lock,              \* holder of AppState.subscriptions_file_lock (an Option)
    map_lock,               \* writer holding AppState.subscriptions' RwLock (an Option)
    all_subscriptions       \* process_killmail's clone of the map (an Option; it is kept
                            \* after the function returned, as history)

loop_vars == <<disk, clock, last_ping_times, attempts, polled, last_poll, slept>>
lock_vars == <<task_pc, file_lock, map_lock>>

vars == <<subscriptions, ships, systems, names, tickers, user_standings, esi_up, zk_data, pc,
          matched_subscriptions, loop_vars, displayed, lock_vars, all_subscriptions>>

(***************************************************************************)
(* Bounds of the model.                                                    *)
(***************************************************************************)
MaxNodes == 3       \* nodes (leaves and combinators) of a rule tree of any shape
MaxChildren == 3    \* leaves of a flat And/Or rule, the shape /subscribe builds
MaxAttackers == 2   \* attackers of an event

None == {}
Some(x) == {x}

Min(a, b) == IF a <= b THEN a ELSE b

Range(s) == {s[i] : i \in DOMAIN s}

(***************************************************************************)
(* The catalog behind the enrichment layer: what the remote service would  *)
(* answer for an id.  Ids outside the domains make the call fail.          *)
(***************************************************************************)
Naglfar == 19720
Revelation == 19722
Rifter == 587
Thanatos == 23911
Drill == 81826

EsiTypes == (Naglfar :> 485) @@ (Revelation :> 485) @@ (Rifter :> 25) @@ (Thanatos :> 547)

Jita == 30000142
Amarr == 31002222
Siseide == 30002539

EsiSystems ==
    (Jita :> [id |-> Jita, region_id |-> 10000002, security_status |-> 95,
              x |-> 0, y |-> 0, z |-> 0]) @@
    (Amarr :> [id |-> Amarr, region_id |-> 10000043, security_status |-> 100,
               x |-> 3, y |-> 4, z |-> 0]) @@
    (Siseide :> [id |-> Siseide, region_id |-> 10000030, security_status |-> 34,
                 x |-> 0, y |-> 6, z |-> 8])

\* A name is a sequence of characters.
EsiNames == (Naglfar :> <<"N", "a", "g">>) @@ (Revelation :> <<"R", "e", "v">>) @@
            (Rifter :> <<"R", "i", "f">>) @@ (Thanatos :> <<"T", "h", "a">>)

(***************************************************************************)
(* Enrichment lookups: a hit in the map, else the catalog's answer.        *)
(***************************************************************************)
get_ship_group_id(ship_id) ==
    IF ship_id \in DOMAIN ships THEN Some(ships[ship_id])
    ELSE IF esi_up /\ ship_id \in DOMAIN EsiTypes THEN Some(EsiTypes[ship_id])
    ELSE None

get_system(system_id) ==
    IF system_id \in DOMAIN systems THEN Some(systems[system_id])
    ELSE IF esi_up /\ system_id \in DOMAIN EsiSystems THEN Some(EsiSystems[system_id])
    ELSE None

get_name(id) ==
    IF id \in DOMAIN names THEN Some(names[id])
    ELSE IF esi_up /\ id \in DOMAIN EsiNames THEN Some(EsiNames[id])
    ELSE None

\* The tickers the catalog knows, of alliances and of corporations (alliance 11 has
\* changed its ticker since the map was saved).
EsiTickers(is_alliance) ==
    IF is_alliance THEN (11 :> "NGLF") @@ (99000001 :> "BLUE")
    ELSE (101 :> "N101") @@ (103 :> "T103")

get_ticker(id, is_alliance) ==
    IF id \in DOMAIN tickers THEN Some(tickers[id])
    ELSE IF esi_up /\ id \in DOMAIN EsiTickers(is_alliance) THEN Some(EsiTickers(is_alliance)[id])
    ELSE None

(***************************************************************************)
(* AttackerKey::new: the present ids, each with its prefix, in the fixed   *)
(* order ship, weapon, character, corporation, alliance, faction.          *)
(***************************************************************************)
KeyPart(prefix, opt) == IF opt = None THEN <<>> ELSE <<<<prefix, CHOOSE id \in opt : TRUE>>>>

AttackerKey(attacker) ==
    KeyPart("s", attacker.ship_type_id) \o KeyPart("w", attacker.weapon_type_id) \o
    KeyPart("c", attacker.character_id) \o KeyPart("o", attacker.corporation_id) \o
    KeyPart("a", attacker.alliance_id) \o KeyPart("f", attacker.faction_id)

AttackerKeys(zk) == {AttackerKey(zk.killmail.attackers[i]) : i \in DOMAIN zk.killmail.attackers}

\* FilterResult and its Default.
DefaultResult ==
    [matched_attackers |-> {}, matched_victim |-> FALSE,
     min_pilots |-> None, light_year_range |-> None]

(***************************************************************************)
(* Helpers of evaluate_filter.                                             *)
(***************************************************************************)
\* min.is_none_or(|m| v >= m) && max.is_none_or(|m| v <= m)
InOptRange(v, min, max) == (\A m \in min : v >= m) /\ (\A m \in max : v <= m)

\* parse_security_range: the string is given by the parts "..=" splits it into, each
\* part being None when f64::from_str rejects it and Some(hundredths) otherwise.
parse_security_range(s) ==
    IF Len(s) # 2 THEN None
    ELSE IF s[1] = None \/ s[2] = None THEN None
    ELSE Some([start |-> CHOOSE v \in s[1] : TRUE, end |-> CHOOSE v \in s[2] : TRUE])

\* (security_status * 10.0).round() / 10.0, on hundredths; round() rounds half away from zero.
RoundedSec(hundredths) ==
    IF hundredths >= 0 THEN 10 * ((hundredths + 5) \div 10)
    ELSE -(10 * (((-hundredths) + 5) \div 10))

ISqrt(n) == CHOOSE r \in 0..n : r * r <= n /\ (r + 1) * (r + 1) > n

\* distance, in whole light years (coordinates are given in light years).
distance(system1, system2) ==
    LET dx == system1.x - system2.x
        dy == system1.y - system2.y
        dz == system1.z - system2.z
    IN  ISqrt(dx * dx + dy * dy + dz * dz)

\* The matched_ranges Vec of the LyRangeFrom arm, in configuration order.
RECURSIVE MatchedRanges(_, _)
MatchedRanges(killmail_system, system_ranges) ==
    IF system_ranges = <<>> THEN <<>>
    ELSE LET system_range == Head(system_ranges)
             target == get_system(system_range.system_id)
             rest == MatchedRanges(killmail_system, Tail(system_ranges))
         IN  IF target = None THEN rest
             ELSE LET target_system == CHOOSE t \in target : TRUE
                      d == distance(killmail_system, target_system)
                  IN  IF d <= system_range.range
                      THEN <<[system_id |-> target_system.id, range |-> d]>> \o rest
                      ELSE rest

\* sort_by descending (stable) followed by pop(): the last of the entries of least range.
ShortestRange(matched_ranges) ==
    LET least == CHOOSE i \in DOMAIN matched_ranges :
                     \A j \in DOMAIN matched_ranges :
                         \/ matched_ranges[i].range < matched_ranges[j].range
                         \/ matched_ranges[i].range = matched_ranges[j].range /\ j <= i
    IN  matched_ranges[least]

ToLower(ch) ==
    CASE ch = "N" -> "n" [] ch = "R" -> "r" [] ch = "T" -> "t" [] ch = "A" -> "a"
      [] OTHER -> ch

to_lowercase(str) == [i \in DOMAIN str |-> ToLower(str[i])]

\* str::contains
Contains(hay, needle) ==
    \E k \in 0..(Len(hay) - Len(needle)) :
        \A i \in 1..Len(needle) : hay[k + i] = needle[i]

\* IgnoreHighStanding: the implicit blues of the subject, from the first matching token.
ImplicitBlues(user, source, source_entity_id) ==
    LET tokens == user.tokens
        matching == {i \in DOMAIN tokens :
                        \/ source = "Character" /\ tokens[i].character_id = source_entity_id
                        \/ source = "Corporation" /\ tokens[i].corporation_id = source_entity_id
                        \/ source = "Alliance" /\ tokens[i].alliance_id = Some(source_entity_id)}
    IN  IF matching = {} THEN {source_entity_id}
        ELSE LET token == tokens[CHOOSE i \in matching : \A j \in matching : i <= j]
             IN  {source_entity_id}
                 \cup (IF source = "Character"
                       THEN {token.corporation_id} \cup token.alliance_id ELSE {})
                 \cup (IF source = "Corporation" THEN token.alliance_id ELSE {})

StandingThreshold == 5

\* is_blue of the IgnoreHighStanding arm.
IsBlue(attacker, user, source, source_entity_id) ==
    LET attacker_ids == attacker.character_id \cup attacker.corporation_id
                        \cup attacker.alliance_id
        contacts == IF source_entity_id \in DOMAIN user.contact_lists
                    THEN Some(user.contact_lists[source_entity_id]) ELSE None
    IN  \E id \in attacker_ids :
            \/ id \in ImplicitBlues(user, source, source_entity_id)
            \/ \E cl \in contacts : \E i \in DOMAIN cl :
                   cl[i].contact_id = id /\ cl[i].standing >= StandingThreshold

\* The IgnoreHighStanding arm: always Some, with the keys of the blue attackers.
IgnoreHighStanding(sf, zk) ==
    LET attackers == zk.killmail.attackers
        blue == IF sf.synched_by_user_id \in DOMAIN user_standings
                THEN {i \in DOMAIN attackers :
                         IsBlue(attackers[i], user_standings[sf.synched_by_user_id],
                                sf.source, sf.source_entity_id)}
                ELSE {}
    IN  Some([DefaultResult EXCEPT !.matched_attackers = {AttackerKey(attackers[i]) : i \in blue}])

(***************************************************************************)
(* evaluate_filter: the leaves.                                            *)
(***************************************************************************)
\* The arms of `match sf` other than IgnoreHighStanding: Some(result) or None, before
\* matched_victim is set.
SimpleArm(sf, zk) ==
    LET killmail == zk.killmail
        pass == Some(DefaultResult)
    IN  CASE sf.tag = "TotalValue" ->
               IF InOptRange(zk.zkb.total_value, sf.min, sf.max) THEN pass ELSE None
          [] sf.tag = "DroppedValue" ->
               IF InOptRange(zk.zkb.dropped_value, sf.min, sf.max) THEN pass ELSE None
          [] sf.tag = "Region" ->
               IF \E s \in get_system(killmail.solar_system_id) : s.region_id \in sf.ids
               THEN pass ELSE None
          [] sf.tag = "System" ->
               IF killmail.solar_system_id \in sf.ids THEN pass ELSE None
          [] sf.tag = "Security" ->
               IF \E system \in get_system(killmail.solar_system_id) :
                    \E range \in parse_security_range(sf.range_str) :
                       LET rounded_sec == RoundedSec(system.security_status)
                       IN  range.start <= rounded_sec /\ rounded_sec <= range.end
               THEN pass ELSE None
          [] sf.tag = "LyRangeFrom" ->
               LET ks == get_system(killmail.solar_system_id)
               IN  IF ks = None THEN None
                   ELSE LET matched_ranges ==
                                MatchedRanges(CHOOSE k \in ks : TRUE, sf.system_ranges)
                        IN  IF matched_ranges = <<>> THEN None
                            ELSE Some([DefaultResult EXCEPT
                                         !.light_year_range = Some(ShortestRange(matched_ranges))])
          [] sf.tag = "IsNpc" -> IF zk.zkb.npc = sf.flag THEN pass ELSE None
          [] sf.tag = "IsSolo" -> IF zk.zkb.solo = sf.flag THEN pass ELSE None
          [] sf.tag = "Pilots" ->
               LET num_pilots == Len(killmail.attackers) + 1
               IN  IF InOptRange(num_pilots, sf.min, sf.max)
                   THEN Some([DefaultResult EXCEPT
                                !.min_pilots = Some(IF sf.min = None THEN 0
                                                    ELSE CHOOSE m \in sf.min : TRUE)])
                   ELSE None
          [] sf.tag = "TimeRange" ->
               \* chrono's hour() is the hour as written in the timestamp
               IF \E killmail_time \in killmail.killmail_time :
                    LET killmail_hour == killmail_time.hour
                    IN  IF sf.start <= sf.end
                        THEN killmail_hour >= sf.start /\ killmail_hour <= sf.end
                        ELSE killmail_hour >= sf.start \/ killmail_hour <= sf.end
               THEN pass ELSE None

\* Mutant of MarkVictim: matched_victim is left as the arm produced it.
MarkVictim_Skipped(res) == res

\* Mutant of MarkVictim: the result is built by FilterResult::match_all.
MarkVictim_MatchAll(res) ==
    {[r EXCEPT !.matched_victim = TRUE, !.matched_attackers = AttackerKeys(zk_data)] : r \in res}

\* `if let Some(res) = &mut res { res.matched_victim = true }`
MarkVictim(res) == {[r EXCEPT !.matched_victim = TRUE] : r \in res}

\* Mutant of ShipGroupMatch: the configured ids are taken for type ids and resolved
\* to their groups before the membership test.
ShipGroupMatch_ResolvesIds(ids, attacker) ==
    LET groups == UNION {get_ship_group_id(t) : t \in ids}
    IN  \/ \E id \in attacker.ship_type_id : \E gid \in get_ship_group_id(id) : gid \in groups
        \/ \E id \in attacker.weapon_type_id : \E gid \in get_ship_group_id(id) : gid \in groups

\* The TargetableCondition::ShipGroup arm of condition_checker.
ShipGroupMatch(ids, attacker) ==
    LET ship_match == \E id \in attacker.ship_type_id :
                          \E gid \in get_ship_group_id(id) : gid \in ids
        weapon_match == \E id \in attacker.weapon_type_id :
                            \E gid \in get_ship_group_id(id) : gid \in ids
    IN  ship_match \/ weapon_match

\* The closure condition_checker of the Targeted arm.
condition_checker(condition, attacker) ==
    CASE condition.tag = "Alliance" -> \E id \in attacker.alliance_id : id \in condition.ids
      [] condition.tag = "Corporation" -> \E id \in attacker.corporation_id : id \in condition.ids
      [] condition.tag = "Character" -> \E id \in attacker.character_id : id \in condition.ids
      [] condition.tag = "ShipType" ->
           \/ \E id \in attacker.ship_type_id : id \in condition.ids
           \/ \E id \in attacker.weapon_type_id : id \in condition.ids
      [] condition.tag = "ShipGroup" -> ShipGroupMatch(condition.ids, attacker)
      [] condition.tag = "NameFragment" ->
           IF attacker.ship_type_id # None
           THEN \E id \in attacker.ship_type_id : \E n \in get_name(id) :
                    Contains(to_lowercase(n), to_lowercase(condition.fragment))
           ELSE \E id \in attacker.weapon_type_id : \E n \in get_name(id) :
                    Contains(to_lowercase(n), to_lowercase(condition.fragment))

\* Mutant of is_victim: every target scope includes the victim.
is_victim_Always(target) == TRUE

\* Target::is_attacker, Target::is_victim
is_attacker(target) == target \in {"Attacker", "Any"}
is_victim(target) == target \in {"Victim", "Any"}

\* The temporary Attacker built from the victim.
victim_as_attacker(victim) ==
    [character_id |-> victim.character_id, corporation_id |-> victim.corporation_id,
     alliance_id |-> victim.alliance_id, ship_type_id |-> Some(victim.ship_type_id),
     weapon_type_id |-> None, faction_id |-> victim.faction_id]

\* The Filter::Targeted arm.
TargetedArm(tf, zk) ==
    LET killmail == zk.killmail
        matched_victim == is_victim(tf.target)
                          /\ condition_checker(tf.condition, victim_as_attacker(killmail.victim))
        matched_attackers ==
            IF is_attacker(tf.target)
            THEN {AttackerKey(killmail.attackers[i]) :
                     i \in {j \in DOMAIN killmail.attackers :
                               condition_checker(tf.condition, killmail.attackers[j])}}
            ELSE {}
    IN  IF matched_victim \/ matched_attackers # {}
        THEN Some([DefaultResult EXCEPT !.matched_victim = matched_victim,
                                        !.matched_attackers = matched_attackers])
        ELSE None

evaluate_filter(filter, zk) ==
    IF filter.kind = "Simple"
    THEN IF filter.sf.tag = "IgnoreHighStanding"
         THEN IgnoreHighStanding(filter.sf, zk)
         ELSE MarkVictim(SimpleArm(filter.sf, zk))
    ELSE TargetedArm(filter.tf, zk)

(***************************************************************************)
(* Filter nodes.                                                           *)
(***************************************************************************)
Condition(filter) == [type |-> "Condition", filter |-> filter]
And(nodes) == [type |-> "And", nodes |-> nodes]
Or(nodes) == [type |-> "Or", nodes |-> nodes]
Not(node) == [type |-> "Not", node |-> node]

IsVetoLeaf(node) ==
    node.type = "Condition" /\ node.filter.kind = "Simple"
    /\ node.filter.sf.tag = "IgnoreHighStanding"

\* results.iter().find_map(|r| r.<field>): the first Some among the results.
RECURSIVE FirstMinPilots(_)
FirstMinPilots(results) ==
    IF results = <<>> THEN None
    ELSE IF Head(results).min_pilots # None THEN Head(results).min_pilots
    ELSE FirstMinPilots(Tail(results))

RECURSIVE FirstLightYearRange(_)
FirstLightYearRange(results) ==
    IF results = <<>> THEN None
    ELSE IF Head(results).light_year_range # None THEN Head(results).light_year_range
    ELSE FirstLightYearRange(Tail(results))

\* The first non-empty matched_attackers among the results, or the empty set.
RECURSIVE FirstNonEmptyAttackers(_)
FirstNonEmptyAttackers(results) ==
    IF results = <<>> THEN {}
    ELSE IF Head(results).matched_attackers # {} THEN Head(results).matched_attackers
    ELSE FirstNonEmptyAttackers(Tail(results))

\* Mutant of FoldAttackers: the first non-empty set is kept as it is.
FoldAttackers_FirstOnly(acc, results) == acc

\* Mutant of FoldAttackers: empty sets are intersected like the others.
RECURSIVE FoldAttackers_NoSkip(_, _)
FoldAttackers_NoSkip(acc, results) ==
    IF results = <<>> THEN acc
    ELSE FoldAttackers_NoSkip(acc \cap Head(results).matched_attackers, Tail(results))

\* results.iter().fold(init, ...): empty sets are skipped, the others intersected.
RECURSIVE FoldAttackers(_, _)
FoldAttackers(acc, results) ==
    IF results = <<>> THEN acc
    ELSE FoldAttackers(IF Head(results).matched_attackers = {} THEN acc
                       ELSE acc \cap Head(results).matched_attackers,
                       Tail(results))

\* The merge of the And arm, given the results of all children (all matched).
MergeAnd(results) ==
    LET final_filter_result ==
            [min_pilots |-> FirstMinPilots(results),
             light_year_range |-> FirstLightYearRange(results),
             matched_attackers |-> FoldAttackers(FirstNonEmptyAttackers(results), results),
             matched_victim |-> \A i \in DOMAIN results : results[i].matched_victim]
    IN  IF final_filter_result.matched_victim \/ final_filter_result.matched_attackers # {}
        THEN Some(final_filter_result)
        ELSE None

\* Mutant of MergeOr: the first matching child decides, the others are not merged.
MergeOr_FirstOnly(final_res, child_results) ==
    LET matching == {i \in DOMAIN child_results : child_results[i] # None}
    IN  IF final_res # None \/ matching = {} THEN final_res
        ELSE child_results[CHOOSE i \in matching : \A j \in matching : i <= j]

\* The loop of the Or arm over the children's Option results, from final_res.
RECURSIVE MergeOr(_, _)
MergeOr(final_res, child_results) ==
    IF child_results = <<>> THEN final_res
    ELSE LET result == Head(child_results)
             next == IF result = None THEN final_res
                     ELSE IF final_res # None
                     THEN {[current_res EXCEPT
                              !.matched_attackers = @ \cup r.matched_attackers,
                              !.matched_victim = @ \/ r.matched_victim] :
                              current_res \in final_res, r \in result}
                     ELSE result
         IN  MergeOr(next, Tail(child_results))

\* Mutant of NotResult: only the victim is marked.
NotResult_VictimOnly(zk) == [DefaultResult EXCEPT !.matched_victim = TRUE]

\* Mutant of NotResult: the victim's key is among the matched attackers.
NotResult_WithVictim(zk) ==
    [DefaultResult EXCEPT
        !.matched_attackers = AttackerKeys(zk)
                              \cup {AttackerKey(victim_as_attacker(zk.killmail.victim))},
        !.matched_victim = TRUE]

\* The result of the Not arm when the inner node failed.
NotResult(zk) ==
    [DefaultResult EXCEPT !.matched_attackers = AttackerKeys(zk), !.matched_victim = TRUE]

RECURSIVE evaluate_filter_node(_, _)
evaluate_filter_node(node, zk) ==
    CASE node.type = "Condition" -> evaluate_filter(node.filter, zk)
      [] node.type = "And" ->
           LET child == [i \in DOMAIN node.nodes |-> evaluate_filter_node(node.nodes[i], zk)]
           IN  IF \E i \in DOMAIN child : child[i] = None THEN None
               ELSE MergeAnd([i \in DOMAIN child |-> CHOOSE r \in child[i] : TRUE])
      [] node.type = "Or" ->
           MergeOr(None, [i \in DOMAIN node.nodes |-> evaluate_filter_node(node.nodes[i], zk)])
      [] node.type = "Not" ->
           IF evaluate_filter_node(node.node, zk) # None THEN None
           ELSE Some(NotResult(zk))

(***************************************************************************)
(* partition_filters: <<match tree, veto tree>>, each an Option.           *)
(***************************************************************************)
\* Rewrap the collected nodes: none -> None, one -> that node, more -> the combinator.
Rewrap(type, collected) ==
    IF collected = <<>> THEN None
    ELSE IF Len(collected) = 1 THEN Some(collected[1])
    ELSE Some([type |-> type, nodes |-> collected])

\* The Vec of the Some values of a sequence of Options, in order.
RECURSIVE Collect(_)
Collect(opts) ==
    IF opts = <<>> THEN <<>>
    ELSE (IF Head(opts) = None THEN <<>> ELSE <<CHOOSE n \in Head(opts) : TRUE>>)
         \o Collect(Tail(opts))

\* The Not arm, given the partition of the inner node.
PartitionNot(inner_node, inner) ==
    IF inner[2] # None
    THEN <<Some(Not(inner_node)), None>>
    ELSE <<Some(Not(IF inner[1] = None THEN And(<<>>) ELSE CHOOSE m \in inner[1] : TRUE)),
           None>>

RECURSIVE partition_filters(_)
partition_filters(node) ==
    CASE node.type = "Condition" ->
           IF IsVetoLeaf(node) THEN <<None, Some(node)>> ELSE <<Some(node), None>>
      [] node.type \in {"And", "Or"} ->
           LET parts == [i \in DOMAIN node.nodes |-> partition_filters(node.nodes[i])]
               match_nodes == Collect([i \in DOMAIN parts |-> parts[i][1]])
               veto_nodes == Collect([i \in DOMAIN parts |-> parts[i][2]])
           IN  <<Rewrap(node.type, match_nodes), Rewrap(node.type, veto_nodes)>>
      [] node.type = "Not" -> PartitionNot(node.node, partition_filters(node.node))

(***************************************************************************)
(* process_killmail, for one subscription: None when the subscription does *)
(* not fire, else Some(final FilterResult).                                *)
(***************************************************************************)
\* Step 2: the veto tree's matched attackers, or the empty set.
VetoAttackers(veto_tree, zk) ==
    IF veto_tree = None THEN {}
    ELSE LET r == evaluate_filter_node(CHOOSE v \in veto_tree : TRUE, zk)
         IN  IF r = None THEN {} ELSE (CHOOSE x \in r : TRUE).matched_attackers

\* Mutant of FinalAttackers: the veto set is not subtracted.
FinalAttackers_NoVeto(primary_attackers, veto_attackers) == primary_attackers

\* Step 3: primary_matches.matched_attackers.difference(&veto_attackers)
FinalAttackers(primary_attackers, veto_attackers) == primary_attackers \ veto_attackers

EvaluateSubscription(subscription, zk) ==
    LET trees == partition_filters(subscription.root_filter)
        match_tree == trees[1]
        veto_tree == trees[2]
    IN  IF match_tree = None THEN None
        ELSE LET primary == evaluate_filter_node(CHOOSE m \in match_tree : TRUE, zk)
             IN  IF primary = None THEN None
                 ELSE LET primary_matches == CHOOSE r \in primary : TRUE
                          final_attackers ==
                              FinalAttackers(primary_matches.matched_attackers,
                                             VetoAttackers(veto_tree, zk))
                          final_victim_match == primary_matches.matched_victim
                      IN  IF final_attackers # {} \/ final_victim_match
                          THEN Some([matched_attackers |-> final_attackers,
                                     matched_victim |-> final_victim_match,
                                     min_pilots |-> primary_matches.min_pilots,
                                     light_year_range |-> primary_matches.light_year_range])
                          ELSE None

(***************************************************************************)
(* The ids an evaluation hands to the enrichment layer (each miss that the *)
(* catalog answers is inserted into the map by get_system,                 *)
(* get_ship_group_id and get_name).                                        *)
(***************************************************************************)
NoLookups == [types |-> {}, systems |-> {}, names |-> {}]

JoinLookups(a, b) ==
    [types |-> a.types \cup b.types, systems |-> a.systems \cup b.systems,
     names |-> a.names \cup b.names]

\* The actors a targeted leaf runs its checker on.
CheckedActors(tf, zk) ==
    (IF is_victim(tf.target) THEN {victim_as_attacker(zk.killmail.victim)} ELSE {})
    \cup (IF is_attacker(tf.target) THEN Range(zk.killmail.attackers) ELSE {})

LeafLookups(filter, zk) ==
    IF filter.kind = "Simple"
    THEN LET sf == filter.sf
             here == zk.killmail.solar_system_id
         IN  CASE sf.tag \in {"Region", "Security"} -> [NoLookups EXCEPT !.systems = {here}]
               [] sf.tag = "LyRangeFrom" ->
                    [NoLookups EXCEPT !.systems =
                        {here} \cup (IF get_system(here) = None THEN {}
                                     ELSE {sf.system_ranges[i].system_id :
                                              i \in DOMAIN sf.system_ranges})]
               [] OTHER -> NoLookups
    ELSE LET tf == filter.tf
             actors == CheckedActors(tf, zk)
         IN  CASE tf.condition.tag = "ShipGroup" ->
                    [NoLookups EXCEPT !.types =
                        UNION {a.ship_type_id \cup a.weapon_type_id : a \in actors}]
               [] tf.condition.tag = "NameFragment" ->
                    [NoLookups EXCEPT !.names =
                        UNION {IF a.ship_type_id # None THEN a.ship_type_id
                               ELSE a.weapon_type_id : a \in actors}]
               [] OTHER -> NoLookups

RECURSIVE NodeLookups(_, _)
\* And stops at its first failing child; Or and Not evaluate every child.
RECURSIVE AndLookups(_, _)
AndLookups(nodes, zk) ==
    IF nodes = <<>> THEN NoLookups
    ELSE IF evaluate_filter_node(Head(nodes), zk) = None THEN NodeLookups(Head(nodes), zk)
    ELSE JoinLookups(NodeLookups(Head(nodes), zk), AndLookups(Tail(nodes), zk))

RECURSIVE OrLookups(_, _)
OrLookups(nodes, zk) ==
    IF nodes = <<>> THEN NoLookups
    ELSE JoinLookups(NodeLookups(Head(nodes), zk), OrLookups(Tail(nodes), zk))

NodeLookups(node, zk) ==
    CASE node.type = "Condition" -> LeafLookups(node.filter, zk)
      [] node.type = "And" -> AndLookups(node.nodes, zk)
      [] node.type = "Or" -> OrLookups(node.nodes, zk)
      [] node.type = "Not" -> NodeLookups(node.node, zk)

\* The lookups of process_killmail for one subscription: the match tree, then, when
\* it matched, the veto tree.
SubscriptionLookups(subscription, zk) ==
    LET trees == partition_filters(subscription.root_filter)
    IN  IF trees[1] = None THEN NoLookups
        ELSE LET m == CHOOSE t \in trees[1] : TRUE
             IN  IF evaluate_filter_node(m, zk) = None \/ trees[2] = None
                 THEN NodeLookups(m, zk)
                 ELSE JoinLookups(NodeLookups(m, zk),
                                  NodeLookups(CHOOSE t \in trees[2] : TRUE, zk))

\* Mutant of Learn: the map keeps only the ids that were just looked up.
Learn_Forgets(map, catalog, ids) ==
    LET learned == {id \in ids : id \notin DOMAIN map /\ esi_up /\ id \in DOMAIN catalog}
        kept == (DOMAIN map \cap ids) \cup learned
    IN  [id \in kept |-> IF id \in DOMAIN map THEN map[id] ELSE catalog[id]]

\* A map after the misses among `ids` that the catalog answers were inserted.
Learn(map, catalog, ids) ==
    LET learned == {id \in ids : id \notin DOMAIN map /\ esi_up /\ id \in DOMAIN catalog}
    IN  [id \in DOMAIN map \cup learned |-> IF id \in DOMAIN map THEN map[id] ELSE catalog[id]]

(***************************************************************************)
(* Inputs: actors, events, leaves and rule trees.                          *)
(***************************************************************************)
Actor(ship, weapon, char, corp, alliance, faction) ==
    [ship_type_id |-> ship, weapon_type_id |-> weapon, character_id |-> char,
     corporation_id |-> corp, alliance_id |-> alliance, faction_id |-> faction]

NaglfarPilot == Actor({Naglfar}, {}, {1001}, {101}, {11}, {})
BlueRifter == Actor({Rifter}, {}, {2002}, {98000001}, {99000001}, {})
ThanatosPilot == Actor({Thanatos}, {Thanatos}, {3001}, {103}, {}, {})
\* an attacker without a character: only a weapon, a corporation and a faction
NpcDread == Actor({}, {Revelation}, {}, {1000125}, {}, {500010})

BlueRifterVictim ==
    [ship_type_id |-> Rifter, character_id |-> {3003}, corporation_id |-> {98000001},
     alliance_id |-> {99000001}, faction_id |-> {}]
RevelationVictim ==
    [ship_type_id |-> Revelation, character_id |-> {4004}, corporation_id |-> {101},
     alliance_id |-> {11}, faction_id |-> {}]
DrillVictim ==
    [ship_type_id |-> Drill, character_id |-> {}, corporation_id |-> {103},
     alliance_id |-> {}, faction_id |-> {}]

\* The sequences over a pool, of length at most n, in non-decreasing pool order.
RECURSIVE SortedSeqs(_, _, _)
SortedSeqs(pool, from, n) ==
    {<<>>} \cup
    (IF n = 0 THEN {}
     ELSE UNION {{<<pool[i]>> \o t : t \in SortedSeqs(pool, i, n - 1)} : i \in from..Len(pool)})

\* The same without repetition.
RECURSIVE SubSeqs(_, _, _)
SubSeqs(pool, from, n) ==
    {<<>>} \cup
    (IF n = 0 THEN {}
     ELSE UNION {{<<pool[i]>> \o t : t \in SubSeqs(pool, i + 1, n - 1)} : i \in from..Len(pool)})

Event(attackers, victim, system, time, total, dropped, npc, solo) ==
    [killmail |-> [attackers |-> attackers, killmail_time |-> time,
                   solar_system_id |-> system, victim |-> victim],
     zkb |-> [total_value |-> total, dropped_value |-> dropped, npc |-> npc, solo |-> solo]]

Noon == Some([hour |-> 12, offset |-> 0])

\* Events of the rule-tree specification: the actors vary, the rest is fixed.
TreeEvents ==
    {Event(a, v, Jita, Noon, 10, 1, FALSE, FALSE) :
        a \in SubSeqs(<<NaglfarPilot, BlueRifter, ThanatosPilot>>, 1, MaxAttackers),
        v \in {BlueRifterVictim, RevelationVictim}}

\* Events of the leaf specification: the whole-event attributes vary too.
LeafEvents ==
    {Event(a, v, sys, t, z[1], z[2], z[3], z[4]) :
        a \in SortedSeqs(<<NaglfarPilot, BlueRifter, NpcDread>>, 1, MaxAttackers),
        v \in {BlueRifterVictim, RevelationVictim, DrillVictim},
        sys \in {Jita, Siseide},
        t \in {None, Noon, Some([hour |-> 23, offset |-> 0]), Some([hour |-> 12, offset |-> 5])},
        z \in {<<10, 1, FALSE, FALSE>>, <<2, 0, TRUE, TRUE>>}}

Simple(sf) == Condition([kind |-> "Simple", sf |-> sf])
Targeted(condition, target) ==
    Condition([kind |-> "Targeted", tf |-> [condition |-> condition, target |-> target]])

Veto(user, source, entity) ==
    Simple([tag |-> "IgnoreHighStanding", synched_by_user_id |-> user, source |-> source,
            source_entity_id |-> entity])
VetoCharacter == Veto(12345, "Character", 11111)
VetoCorporation == Veto(12345, "Corporation", 98000002)

SimpleLeaves ==
    {Simple(sf) : sf \in
        {[tag |-> "TotalValue", min |-> {5}, max |-> {}],
         [tag |-> "TotalValue", min |-> {}, max |-> {5}],
         [tag |-> "DroppedValue", min |-> {1}, max |-> {2}],
         [tag |-> "Region", ids |-> {10000002}],
         [tag |-> "System", ids |-> {Siseide}],
         [tag |-> "Security", range_str |-> <<{50}, {100}>>],
         [tag |-> "Security", range_str |-> <<{0}, {29}>>],
         [tag |-> "Security", range_str |-> <<{50}, {}>>],
         [tag |-> "Security", range_str |-> <<{50}>>],
         [tag |-> "LyRangeFrom", system_ranges |->
             <<[system_id |-> Amarr, range |-> 8], [system_id |-> Jita, range |-> 8]>>],
         [tag |-> "LyRangeFrom", system_ranges |-> <<[system_id |-> Amarr, range |-> 4]>>],
         [tag |-> "IsNpc", flag |-> TRUE],
         [tag |-> "IsSolo", flag |-> FALSE],
         [tag |-> "Pilots", min |-> {2}, max |-> {}],
         [tag |-> "Pilots", min |-> {}, max |-> {2}],
         [tag |-> "TimeRange", start |-> 22, end |-> 4],
         [tag |-> "TimeRange", start |-> 8, end |-> 16]}}

TargetedLeaves ==
    {Targeted(c, t) :
        c \in {[tag |-> "Alliance", ids |-> {99000001}],
               [tag |-> "Corporation", ids |-> {101, 1000125}],
               [tag |-> "Character", ids |-> {1001, 3003}],
               [tag |-> "ShipType", ids |-> {Revelation}],
               [tag |-> "ShipGroup", ids |-> {485}],
               [tag |-> "ShipGroup", ids |-> {Naglfar}],
               [tag |-> "NameFragment", fragment |-> <<"R", "E">>]},
        t \in {"Any", "Attacker", "Victim"}}

AllLeaves == SimpleLeaves \cup TargetedLeaves \cup {VetoCharacter, VetoCorporation}

\* The leaves the rule trees are built from.
TreeLeaves ==
    {Targeted([tag |-> "ShipGroup", ids |-> {485}], "Any"),
     Targeted([tag |-> "Alliance", ids |-> {11, 99000001}], "Attacker"),
     Simple([tag |-> "Pilots", min |-> {2}, max |-> {}]),
     VetoCharacter, VetoCorporation}

\* The trees of exactly n nodes, and the Vecs of trees of n nodes in total.
RECURSIVE NodesOfSize(_), ListsOfSize(_)
NodesOfSize(n) ==
    IF n = 1 THEN TreeLeaves \cup {And(<<>>), Or(<<>>)}
    ELSE {Not(x) : x \in NodesOfSize(n - 1)}
         \cup {And(l) : l \in ListsOfSize(n - 1)} \cup {Or(l) : l \in ListsOfSize(n - 1)}
ListsOfSize(n) ==
    IF n = 0 THEN {<<>>}
    ELSE UNION {{<<h>> \o t : h \in NodesOfSize(j), t \in ListsOfSize(n - j)} : j \in 1..n}

\* The Vecs of exactly n leaves.
RECURSIVE LeafLists(_)
LeafLists(n) ==
    IF n = 0 THEN {<<>>}
    ELSE {<<h>> \o t : h \in TreeLeaves, t \in LeafLists(n - 1)}

FlatRules ==
    UNION {{And(l) : l \in LeafLists(n)} \cup {Or(l) : l \in LeafLists(n)} : n \in 0..MaxChildren}

\* The rules: every tree of at most MaxNodes nodes and every flat rule of at most
\* MaxChildren leaves.
FilterNodes == UNION {NodesOfSize(n) : n \in 1..MaxNodes} \cup FlatRules

(***************************************************************************)
(* The state machine.                                                      *)
(***************************************************************************)
Guild == 1

Subscription(root_filter) ==
    [id |-> "1", description |-> "", root_filter |-> root_filter,
     action |-> [channel_id |-> "100", ping_type |-> None]]

\* The standings map: one user who synched a character (with its token) and holds
\* the contact list of a corporation.
Standings ==
    (12345 :>
        [tokens |-> <<[character_id |-> 11111, corporation_id |-> 98000001,
                       alliance_id |-> {99000001}]>>,
         contact_lists |->
            (11111 :> <<[contact_id |-> 103, standing |-> 0]>>) @@
            (98000002 :> <<[contact_id |-> 11, standing |-> 10],
                           [contact_id |-> 103, standing |-> 5],
                           [contact_id |-> 98000001, standing |-> 4]>>)])

\* The handlers that write the subscription map.
Writers == {"subscribe", "unsubscribe", "sync_standings", "sync_remove", "cleanup",
            "guild_delete"}

\* Before run's loop did anything: the tenant files are what load_all_subscriptions
\* read, nobody was pinged, no handler is running.
Quiet ==
    /\ disk = subscriptions
    /\ tickers = (11 :> "NAGL")
    /\ clock = 0
    /\ last_ping_times = [c \in {} |-> 0]
    /\ attempts = <<>>
    /\ slept = FALSE
    /\ displayed = None
    /\ task_pc = [t \in Writers |-> "idle"]
    /\ file_lock = None
    /\ map_lock = None
    /\ all_subscriptions = None

\* State after load_app_state (the maps as read from the config files) and a poll
\* of the upstream that returned the event zk_data.
InitWith(rules, events, catalog_up) ==
    /\ subscriptions \in {(Guild :> <<Subscription(r)>>) : r \in rules}
    /\ ships = (Naglfar :> 485) @@ (Rifter :> 25)
    /\ systems = (Jita :> EsiSystems[Jita])
    /\ names = (Naglfar :> EsiNames[Naglfar]) @@ (Rifter :> EsiNames[Rifter])
    /\ user_standings = Standings
    /\ esi_up \in catalog_up
    /\ zk_data \in events
    /\ pc = "received"
    /\ matched_subscriptions = <<>>
    /\ polled = 1
    /\ last_poll = "event"
    /\ Quiet

Init == InitWith(FilterNodes, TreeEvents, {TRUE})
InitLeaf == InitWith(AllLeaves, LeafEvents, BOOLEAN)

\* Mutant of MatchesOf: a subscription that does not fire ends the guild's loop.
RECURSIVE MatchesOf_StopsAtFailure(_, _, _)
MatchesOf_StopsAtFailure(guild_id, subs, zk) ==
    IF subs = <<>> THEN <<>>
    ELSE LET r == EvaluateSubscription(Head(subs), zk)
         IN  IF r = None THEN <<>>
             ELSE <<[guild_id |-> guild_id, subscription |-> Head(subs),
                     filter_result |-> CHOOSE x \in r : TRUE]>>
                  \o MatchesOf_StopsAtFailure(guild_id, Tail(subs), zk)

\* The matches of one guild's subscriptions, in order.
RECURSIVE MatchesOf(_, _, _)
MatchesOf(guild_id, subs, zk) ==
    IF subs = <<>> THEN <<>>
    ELSE LET r == EvaluateSubscription(Head(subs), zk)
         IN  (IF r = None THEN <<>>
              ELSE <<[guild_id |-> guild_id, subscription |-> Head(subs),
                      filter_result |-> CHOOSE x \in r : TRUE]>>)
             \o MatchesOf(guild_id, Tail(subs), zk)

RECURSIVE LookupsOf(_, _)
LookupsOf(subs, zk) ==
    IF subs = <<>> THEN NoLookups
    ELSE JoinLookups(SubscriptionLookups(Head(subs), zk), LookupsOf(Tail(subs), zk))

\* The orders in which `all_subscriptions.iter()` may visit the guilds of the HashMap.
RECURSIVE GuildOrders(_)
GuildOrders(guilds) ==
    IF guilds = {} THEN {<<>>}
    ELSE UNION {{<<g>> \o rest : rest \in GuildOrders(guilds \ {g})} : g \in guilds}

\* The matches of the guilds visited in `order`, over the snapshot `subs_map`.
RECURSIVE MatchesInOrder(_, _, _)
MatchesInOrder(order, subs_map, zk) ==
    IF order = <<>> THEN <<>>
    ELSE MatchesOf(Head(order), subs_map[Head(order)], zk)
         \o MatchesInOrder(Tail(order), subs_map, zk)

RECURSIVE LookupsInOrder(_, _, _)
LookupsInOrder(order, subs_map, zk) ==
    IF order = <<>> THEN NoLookups
    ELSE JoinLookups(LookupsOf(subs_map[Head(order)], zk),
                     LookupsInOrder(Tail(order), subs_map, zk))

process_killmail ==
    /\ pc = "received"
    /\ \E order \in GuildOrders(DOMAIN subscriptions) :
          /\ matched_subscriptions' = MatchesInOrder(order, subscriptions, zk_data)
          /\ LET touched == LookupsInOrder(order, subscriptions, zk_data)
             IN  /\ ships' = Learn(ships, EsiTypes, touched.types)
                 /\ systems' = Learn(systems, EsiSystems, touched.systems)
                 /\ names' = Learn(names, EsiNames, touched.names)
    /\ pc' = "processed"
    /\ UNCHANGED <<subscriptions, tickers, user_standings, esi_up, zk_data, loop_vars, displayed,
                   lock_vars, all_subscriptions>>

Next == process_killmail

Spec == Init /\ [][Next]_vars
SpecLeaf == InitLeaf /\ [][Next]_vars

(***************************************************************************)
(* run's loop (src/src/lib.rs): listen, process_killmail, one call of      *)
(* send_killmail_message per match with the handling of its error, and the *)
(* sleep after a failed poll.                                              *)
(***************************************************************************)
MaxPolls == 2       \* calls of listen in a behaviour
MaxFailures == 2    \* deliveries the gateway refuses in a behaviour

PingInterval == 300     \* Duration::from_secs(300)
FirstPingAge == 301     \* Duration::from_secs(301)
RetrySleep == 5         \* Duration::from_secs(5)

OtherGuild == Guild + 1

\* str::parse::<u64> on the channel ids of the model.
ChannelIds == ("100" :> Some(100)) @@ ("200" :> Some(200)) @@ ("x" :> None)
ParseChannel(channel_id) == ChannelIds[channel_id]

Here(max_ping_delay_minutes) ==
    [kind |-> "Here", max_ping_delay_minutes |-> max_ping_delay_minutes]
Everyone(max_ping_delay_minutes) ==
    [kind |-> "Everyone", max_ping_delay_minutes |-> max_ping_delay_minutes]

\* PingType::max_ping_delay_in_minutes followed by unwrap_or(0)
max_ping_delay_in_minutes(ping_type) ==
    IF ping_type.max_ping_delay_minutes = None THEN 0
    ELSE CHOOSE m \in ping_type.max_ping_delay_minutes : TRUE

\* max_delay == 0 || kill_age.num_minutes() <= max_delay
WithinPingDelay(ping_type, kill_age) ==
    LET max_delay == max_ping_delay_in_minutes(ping_type)
    IN  max_delay = 0 \/ kill_age <= max_delay

\* Mutant of DebounceElapsed: a ping is due when 300 seconds have passed.
DebounceElapsed_AtLeast(now, last_ping) == now - last_ping >= PingInterval

\* Mutant of DebounceElapsed: a ping is due as soon as any time has passed.
DebounceElapsed_AnyTime(now, last_ping) == now - last_ping > 0

\* now.duration_since(*last_ping) > Duration::from_secs(300)
DebounceElapsed(now, last_ping) == now - last_ping > PingInterval

\* The entry of the channel in last_ping_times, after or_insert.
LastPing(channel, now) ==
    IF channel \in DOMAIN last_ping_times THEN last_ping_times[channel]
    ELSE now - FirstPingAge

PingPrefix(ping_type) == IF ping_type.kind = "Here" THEN "@here" ELSE "@everyone"

\* What the gateway may answer to send_message, and the ages (in minutes) an event
\* may have when its message is built.
SendResults == {"ok", "forbidden", "not_found", "server_error", "transport"}
KillAges == {0, 10}

\* Mutant of KillmailSendError: every failure asks for the cleanup of the channel.
KillmailSendError_AlwaysCleanup(result) ==
    IF result = "ok" THEN "Ok" ELSE "CleanupChannel"

\* The Result of send_killmail_message for an answer of the gateway (or for a
\* channel id that does not parse).
KillmailSendError(result) ==
    CASE result = "ok" -> "Ok"
      [] result \in {"forbidden", "not_found"} -> "CleanupChannel"
      [] OTHER -> "Other"

\* Mutant of RetainOtherChannels: only the first subscription of the channel goes.
RetainOtherChannels_KeepsAll(guild_subs, channel_id) == guild_subs

RetainOtherChannels_FirstOnly(guild_subs, channel_id) ==
    LET hits == {i \in DOMAIN guild_subs : guild_subs[i].action.channel_id = channel_id}
    IN  IF hits = {} THEN guild_subs
        ELSE LET first == CHOOSE i \in hits : \A j \in hits : i <= j
             IN  [i \in 1..(Len(guild_subs) - 1) |->
                     IF i < first THEN guild_subs[i] ELSE guild_subs[i + 1]]

\* guild_subs.retain(|s| s.action.channel_id != subscription.action.channel_id)
RetainOtherChannels(guild_subs, channel_id) ==
    SelectSeq(guild_subs, LAMBDA sub : sub.action.channel_id # channel_id)

\* save_subscriptions_for_guild: the file is rewritten, or (the write failing) it
\* keeps its content.
save_subscriptions_for_guild(files, guild_id, guild_subs, written) ==
    IF written
    THEN [g \in DOMAIN files \cup {guild_id} |->
             IF g = guild_id THEN guild_subs ELSE files[g]]
    ELSE files

\* The deliveries so far that the gateway refused.
Refused == Cardinality({i \in DOMAIN attempts :
                           attempts[i].result \notin {"ok", "invalid_channel"}})

Attempt(match, channel, kill_age, result, content) ==
    [event |-> polled, guild_id |-> match.guild_id, id |-> match.subscription.id,
     channel_id |-> match.subscription.action.channel_id, channel |-> channel,
     ping_type |-> match.subscription.action.ping_type, kill_age |-> kill_age,
     result |-> result, content |-> content, time |-> clock]

\* One iteration of `for (guild_id, subscription, filter_result) in matched`.
send_killmail_message ==
    /\ pc = "processed"
    /\ matched_subscriptions # <<>>
    /\ LET match == Head(matched_subscriptions)
           subscription == match.subscription
           guild_id == match.guild_id
           channel == ParseChannel(subscription.action.channel_id)
           ping_type == subscription.action.ping_type
       IN  IF channel = None
           THEN /\ attempts' = Append(attempts, Attempt(match, None, 0, "invalid_channel", None))
                /\ UNCHANGED <<subscriptions, disk, last_ping_times>>
           ELSE \E kill_age \in KillAges, result \in SendResults, written \in BOOLEAN :
                  LET channel_id == CHOOSE c \in channel : TRUE
                      asked == \E pt \in ping_type : WithinPingDelay(pt, kill_age)
                      last_ping == LastPing(channel_id, clock)
                      due == asked /\ DebounceElapsed(clock, last_ping)
                      content == IF due THEN Some(PingPrefix(CHOOSE pt \in ping_type : TRUE))
                                 ELSE None
                      cleanup == KillmailSendError(result) = "CleanupChannel"
                                 /\ guild_id \in DOMAIN subscriptions
                      guild_subs == RetainOtherChannels(subscriptions[guild_id],
                                                        subscription.action.channel_id)
                  IN  /\ (\A pt \in ping_type : max_ping_delay_in_minutes(pt) = 0)
                            => kill_age = 0
                      /\ result # "ok" => Refused < MaxFailures
                      /\ ~cleanup => written
                      /\ last_ping_times' =
                            IF asked
                            THEN [c \in DOMAIN last_ping_times \cup {channel_id} |->
                                     IF c = channel_id
                                     THEN (IF due THEN clock ELSE last_ping)
                                     ELSE last_ping_times[c]]
                            ELSE last_ping_times
                      /\ attempts' = Append(attempts, Attempt(match, channel, kill_age, result, content))
                      /\ IF cleanup
                         THEN /\ subscriptions' = [subscriptions EXCEPT ![guild_id] = guild_subs]
                              /\ disk' = save_subscriptions_for_guild(disk, guild_id,
                                                                      guild_subs, written)
                         ELSE UNCHANGED <<subscriptions, disk>>
    /\ matched_subscriptions' = Tail(matched_subscriptions)
    /\ UNCHANGED <<ships, systems, names, tickers, user_standings, esi_up, zk_data, pc, clock, polled,
                   last_poll, slept, displayed, lock_vars, all_subscriptions>>

\* Mutant of AfterMatches: the loop goes on to listen after the first match.
AfterMatches_Hasty(matched) == TRUE

\* The `for` over `matched` is left when no match remains.
AfterMatches(matched) == matched = <<>>

\* The end of the `Ok(Some(zk_data))` arm: back to the head of the loop.
next_iteration ==
    /\ pc = "processed"
    /\ AfterMatches(matched_subscriptions)
    /\ pc' = "listen"
    /\ UNCHANGED <<subscriptions, ships, systems, names, tickers, user_standings, esi_up, zk_data,
                   matched_subscriptions, loop_vars, displayed, lock_vars, all_subscriptions>>

\* How listen may end: with an event, with no event (`package` is null), or with an
\* error (the request failing, a non-success status, an HTML body, undecodable JSON).
ListenErrors == {"request", "status", "html", "json"}
ListenResults == {"event", "idle"} \cup ListenErrors

\* Mutant of IsListenError: an HTML body is not taken for an error.
IsListenError_HtmlPasses(result) == result \in ListenErrors \ {"html"}

\* listen returns Err
IsListenError(result) == result \in ListenErrors

\* The seconds a call of listen may take.
PollDurations == {1, PingInterval, PingInterval + 1}

RunEvents ==
    {Event(<<NaglfarPilot>>, BlueRifterVictim, Jita, Noon, 10, 1, FALSE, FALSE),
     Event(<<ThanatosPilot>>, BlueRifterVictim, Jita, Noon, 10, 1, FALSE, FALSE),
     Event(<<BlueRifter>>, BlueRifterVictim, Jita, None, 10, 1, FALSE, FALSE)}

\* listener.listen().await and the match on its result.
listen ==
    /\ pc = "listen"
    /\ polled < MaxPolls
    /\ \E result \in ListenResults, d \in PollDurations :
          /\ clock' = clock + d
          /\ last_poll' = result
          /\ IF IsListenError(result)
             THEN pc' = "sleep" /\ UNCHANGED zk_data
             ELSE IF result = "idle"
             THEN pc' = "listen" /\ UNCHANGED zk_data
             ELSE pc' = "received" /\ zk_data' \in RunEvents
    /\ polled' = polled + 1
    /\ slept' = FALSE
    /\ UNCHANGED <<subscriptions, ships, systems, names, tickers, user_standings, esi_up,
                   matched_subscriptions, disk, last_ping_times, attempts, displayed,
                   lock_vars, all_subscriptions>>

\* tokio::time::sleep(Duration::from_secs(5)) of the Err arm.
sleep ==
    /\ pc = "sleep"
    /\ clock' = clock + RetrySleep
    /\ slept' = TRUE
    /\ pc' = "listen"
    /\ UNCHANGED <<subscriptions, ships, systems, names, tickers, user_standings, esi_up, zk_data,
                   matched_subscriptions, disk, last_ping_times, attempts, polled, last_poll,
                   displayed, lock_vars, all_subscriptions>>

RunSubscription(id, root_filter, channel_id, ping_type) ==
    [id |-> id, description |-> "", root_filter |-> root_filter,
     action |-> [channel_id |-> channel_id, ping_type |-> ping_type]]

Capitals == Targeted([tag |-> "ShipGroup", ids |-> {485}], "Attacker")
MalformedSecurity == Simple([tag |-> "Security", range_str |-> <<{50}>>])

Valuable == Simple([tag |-> "TotalValue", min |-> {5}, max |-> {}])
Daytime == Simple([tag |-> "TimeRange", start |-> 8, end |-> 16])

\* The stores run starts with: two guilds with a channel each, and a guild one of
\* whose subscriptions names a channel id that is no number.
RunStores ==
    {(Guild :> <<RunSubscription("caps", Capitals, "100", Some(Here(None))),
                 RunSubscription("all", Valuable, "100", Some(Everyone(Some(5))))>>) @@
     (OtherGuild :> <<RunSubscription("sec", MalformedSecurity, "200", None),
                      RunSubscription("day", Daytime, "200", Some(Here(None)))>>),
     (Guild :> <<RunSubscription("typo", Valuable, "x", Some(Here(None))),
                 RunSubscription("caps", Capitals, "100", Some(Here(None)))>>)}

\* The catalog is unreachable, and the Thanatos is not cached.
InitRun ==
    /\ subscriptions \in RunStores
    /\ ships = (Naglfar :> 485) @@ (Rifter :> 25)
    /\ systems = (Jita :> EsiSystems[Jita])
    /\ names = (Naglfar :> EsiNames[Naglfar]) @@ (Rifter :> EsiNames[Rifter])
    /\ user_standings = Standings
    /\ esi_up = FALSE
    /\ zk_data = None
    /\ pc = "listen"
    /\ matched_subscriptions = <<>>
    /\ polled = 0
    /\ last_poll = "none"
    /\ Quiet

NextRun ==
    \/ listen
    \/ sleep
    \/ process_killmail
    \/ send_killmail_message
    \/ next_iteration

SpecRun == InitRun /\ [][NextRun]_vars

(***************************************************************************)
(* The writers of the subscription map and their locks: the commands        *)
(* subscribe, unsubscribe and sync remove, the standings sync of the SSO   *)
(* callback, the cleanup of run, and guild_delete.  Each takes its locks,  *)
(* changes the map and rewrites the guild's file, then drops the locks.    *)
(***************************************************************************)
\* unsubscribe's run takes subscriptions.write() alone; every other writer takes
\* subscriptions_file_lock.lock().await before it.
UsesFileLock(t) == t # "unsubscribe"

\* conditions.retain(|c| !matches!(c, ... IgnoreHighStanding { .. }))
DropStandings(conditions) == SelectSeq(conditions, LAMBDA c : ~IsVetoLeaf(c))

\* The root filter after the standings sync has put new_filter into it.
SyncedFilter(root_filter, new_filter) ==
    IF root_filter.type = "And"
    THEN And(Append(DropStandings(root_filter.nodes), new_filter))
    ELSE IF IsVetoLeaf(root_filter) THEN new_filter
    ELSE And(<<root_filter, new_filter>>)

\* The root filter after sync remove.
UnsyncedFilter(root_filter) ==
    IF root_filter.type = "And" THEN And(DropStandings(root_filter.nodes)) ELSE root_filter

\* guild_subs.iter_mut().find(|s| s.id == id && s.action.channel_id == channel_id):
\* the index of the first such subscription, if there is one.
FindSubscription(guild_subs, id, channel_id) ==
    LET found == {i \in DOMAIN guild_subs :
                     guild_subs[i].id = id /\ guild_subs[i].action.channel_id = channel_id}
    IN  {i \in found : \A k \in found : i <= k}

\* Mutant of RetainOthers: nothing is removed.
RetainOthers_Nothing(guild_subs, id, channel_id) == guild_subs

\* guild_subs.retain(|sub| sub.id != id || sub.action.channel_id != channel_id)
RetainOthers(guild_subs, id, channel_id) ==
    SelectSeq(guild_subs, LAMBDA sub : sub.id # id \/ sub.action.channel_id # channel_id)

\* The list of the guild after the writer's change; guild_delete removes the entry
\* (and writes an empty list to the file).  The commands are issued in channel 100.
Written(t, guild_subs) ==
    CASE t = "subscribe" ->
           Append(RetainOthers(guild_subs, "caps", "100"),
                  RunSubscription("caps", Valuable, "100", None))
      [] t = "unsubscribe" -> RetainOthers(guild_subs, "all", "100")
      [] t = "sync_standings" ->
           [i \in DOMAIN guild_subs |->
               IF i \in FindSubscription(guild_subs, "caps", "100")
               THEN [guild_subs[i] EXCEPT !.root_filter = SyncedFilter(@, VetoCorporation)]
               ELSE guild_subs[i]]
      [] t = "sync_remove" ->
           [i \in DOMAIN guild_subs |->
               IF i \in FindSubscription(guild_subs, "all", "100")
               THEN [guild_subs[i] EXCEPT !.root_filter = UnsyncedFilter(@)]
               ELSE guild_subs[i]]
      [] t = "cleanup" -> RetainOtherChannels(guild_subs, "100")
      [] t = "guild_delete" -> <<>>

\* Whether the writer rewrites the file: unsubscribe and sync remove only when they
\* changed the list, the standings sync only when it found the subscription.
Saves(t, guild_subs) ==
    CASE t \in {"unsubscribe", "sync_remove"} -> Written(t, guild_subs) # guild_subs
      [] t = "sync_standings" -> FindSubscription(guild_subs, "caps", "100") # {}
      [] OTHER -> TRUE

\* subscriptions_file_lock.lock().await
lock_file(t) ==
    /\ task_pc[t] = "idle"
    /\ UsesFileLock(t)
    /\ file_lock = None
    /\ file_lock' = Some(t)
    /\ task_pc' = [task_pc EXCEPT ![t] = "has_file"]
    /\ UNCHANGED <<subscriptions, ships, systems, names, tickers, user_standings, esi_up, zk_data, pc,
                   matched_subscriptions, loop_vars, displayed, map_lock,
                   all_subscriptions>>

\* subscriptions.write()
write_map(t) ==
    /\ \/ task_pc[t] = "has_file"
       \/ task_pc[t] = "idle" /\ ~UsesFileLock(t)
    /\ map_lock = None
    /\ map_lock' = Some(t)
    /\ task_pc' = [task_pc EXCEPT ![t] = "has_map"]
    /\ UNCHANGED <<subscriptions, ships, systems, names, tickers, user_standings, esi_up, zk_data, pc,
                   matched_subscriptions, loop_vars, displayed, file_lock,
                   all_subscriptions>>

\* The change of the map and save_subscriptions_for_guild, under the write lock.
mutate(t) ==
    /\ task_pc[t] = "has_map"
    /\ IF Guild \in DOMAIN subscriptions \/ t = "subscribe"
       THEN LET guild_subs == IF Guild \in DOMAIN subscriptions THEN subscriptions[Guild]
                              ELSE <<>>
                after == Written(t, guild_subs)
            IN  /\ subscriptions' =
                      IF t = "guild_delete"
                      THEN [g \in DOMAIN subscriptions \ {Guild} |-> subscriptions[g]]
                      ELSE [g \in DOMAIN subscriptions \cup {Guild} |->
                               IF g = Guild THEN after ELSE subscriptions[g]]
                /\ \E written \in BOOLEAN :
                      /\ ~Saves(t, guild_subs) => ~written
                      /\ disk' = save_subscriptions_for_guild(disk, Guild, after, written)
       ELSE /\ UNCHANGED subscriptions
            /\ disk' = save_subscriptions_for_guild(disk, Guild, <<>>, t = "guild_delete")
    /\ task_pc' = [task_pc EXCEPT ![t] = "saved"]
    /\ UNCHANGED <<ships, systems, names, tickers, user_standings, esi_up, zk_data, pc,
                   matched_subscriptions, clock, last_ping_times, attempts, polled, last_poll,
                   slept, displayed, file_lock, map_lock,
                   all_subscriptions>>

\* The guards go out of scope.
unlock(t) ==
    /\ task_pc[t] = "saved"
    /\ map_lock' = None
    /\ file_lock' = IF file_lock = Some(t) THEN None ELSE file_lock
    /\ task_pc' = [task_pc EXCEPT ![t] = "done"]
    /\ UNCHANGED <<subscriptions, ships, systems, names, tickers, user_standings, esi_up, zk_data, pc,
                   matched_subscriptions, loop_vars, displayed,
                   all_subscriptions>>

LockStore ==
    Guild :> <<RunSubscription("caps", Capitals, "100", Some(Here(None))),
               RunSubscription("all", And(<<Valuable, VetoCharacter>>), "100", None)>>

InitLocks ==
    /\ subscriptions = LockStore
    /\ ships = (Naglfar :> 485) @@ (Rifter :> 25)
    /\ systems = (Jita :> EsiSystems[Jita])
    /\ names = (Naglfar :> EsiNames[Naglfar]) @@ (Rifter :> EsiNames[Rifter])
    /\ user_standings = Standings
    /\ esi_up = FALSE
    /\ zk_data = None
    /\ pc = "listen"
    /\ matched_subscriptions = <<>>
    /\ polled = 0
    /\ last_poll = "none"
    /\ Quiet

NextLocks ==
    \E t \in Writers :
        \/ lock_file(t)
        \/ write_map(t)
        \/ mutate(t)
        \/ unlock(t)

SpecLocks == InitLocks /\ [][NextLocks]_vars

(***************************************************************************)
(* select_best_entity_for_display, called by build_killmail_embed for the  *)
(* match it renders.                                                       *)
(***************************************************************************)
SHIP_GROUP_PRIORITY == <<30, 659, 4594, 485, 1538, 547, 883, 902, 513>>

\* position(|&p| p == group_id).unwrap_or(usize::MAX), positions counted from 1 here
\* and usize::MAX standing beyond every position.
PriorityRank(group_id) ==
    IF \E i \in DOMAIN SHIP_GROUP_PRIORITY : SHIP_GROUP_PRIORITY[i] = group_id
    THEN CHOOSE i \in DOMAIN SHIP_GROUP_PRIORITY : SHIP_GROUP_PRIORITY[i] = group_id
    ELSE Len(SHIP_GROUP_PRIORITY) + 1

\* The orders in which a HashSet may hand out its elements.
HashOrders(set) ==
    {order \in [1..Cardinality(set) -> set] :
        \A i, j \in 1..Cardinality(set) : order[i] = order[j] => i = j}

\* attacker_map.get(key): collect keeps the last attacker of a key.
AttackerOfKey(zk, key) ==
    LET is == {i \in DOMAIN zk.killmail.attackers : AttackerKey(zk.killmail.attackers[i]) = key}
    IN  IF is = {} THEN None
        ELSE Some(zk.killmail.attackers[CHOOSE i \in is : \A j \in is : j <= i])

\* attacker.ship_type_id.or(attacker.weapon_type_id)
DisplayType(attacker) ==
    IF attacker.ship_type_id # None THEN attacker.ship_type_id ELSE attacker.weapon_type_id

\* The type, and its group, of the attacker of a key, where they are known.
DisplayTypes(zk, key) == UNION {DisplayType(a) : a \in AttackerOfKey(zk, key)}
DisplayGroups(zk, key) == UNION {get_ship_group_id(t) : t \in DisplayTypes(zk, key)}

MatchedEntity(type_id, group_id, corp_id, alliance_id, color) ==
    [ship_name |-> get_name(type_id), type_id |-> type_id, group_id |-> group_id,
     corp_id |-> corp_id, alliance_id |-> alliance_id, color |-> color]

\* The entity pushed for a matched key, if any.
AttackerEntity(zk, key) ==
    {MatchedEntity(type_id, group_id, attacker.corporation_id, attacker.alliance_id, "Green") :
        attacker \in AttackerOfKey(zk, key), type_id \in DisplayTypes(zk, key),
        group_id \in DisplayGroups(zk, key)}

\* The entity pushed for the victim, if it matched.
VictimEntity(zk, victim_matched) ==
    LET victim == zk.killmail.victim
    IN  IF victim_matched
        THEN {MatchedEntity(victim.ship_type_id, group_id, victim.corporation_id,
                            victim.alliance_id, "Red") :
                 group_id \in get_ship_group_id(victim.ship_type_id)}
        ELSE {}

\* potential_matches, for an order of the matched keys.
RECURSIVE PotentialMatches(_, _, _)
PotentialMatches(zk, order, victim_matched) ==
    IF order = <<>>
    THEN (IF VictimEntity(zk, victim_matched) = {} THEN <<>>
          ELSE <<CHOOSE e \in VictimEntity(zk, victim_matched) : TRUE>>)
    ELSE (IF AttackerEntity(zk, Head(order)) = {} THEN <<>>
          ELSE <<CHOOSE e \in AttackerEntity(zk, Head(order)) : TRUE>>)
         \o PotentialMatches(zk, Tail(order), victim_matched)

\* Mutant of MinByPriority: the first candidate is displayed.
MinByPriority_First(potential_matches) ==
    IF potential_matches = <<>> THEN None ELSE Some(Head(potential_matches))

\* into_iter().min_by_key(...): the first of the candidates of least rank.
MinByPriority(potential_matches) ==
    IF potential_matches = <<>> THEN None
    ELSE LET least == {i \in DOMAIN potential_matches :
                          \A j \in DOMAIN potential_matches :
                              PriorityRank(potential_matches[i].group_id)
                                 <= PriorityRank(potential_matches[j].group_id)}
         IN  Some(potential_matches[CHOOSE i \in least : \A j \in least : i <= j])

select_best_entity_for_display(zk, order, victim_matched) ==
    MinByPriority(PotentialMatches(zk, order, victim_matched))

\* The types select_best_entity_for_display asks the group and the name of.
DisplayLookups(zk, filter_result) ==
    UNION {DisplayType(a) : a \in UNION {AttackerOfKey(zk, key) :
                                           key \in filter_result.matched_attackers}}
    \cup (IF filter_result.matched_victim THEN {zk.killmail.victim.ship_type_id} ELSE {})

\* build_killmail_embed, as far as the entity to display for the first match, the
\* system of the event and the ticker of the victim (its alliance's, else its
\* corporation's) go.
build_killmail_embed ==
    /\ pc = "processed"
    /\ matched_subscriptions # <<>>
    /\ LET filter_result == Head(matched_subscriptions).filter_result
           victim == zk_data.killmail.victim
       IN  /\ \E order \in HashOrders(filter_result.matched_attackers) :
                 displayed' = select_best_entity_for_display(zk_data, order,
                                                             filter_result.matched_victim)
           /\ systems' = Learn(systems, EsiSystems, {zk_data.killmail.solar_system_id})
           /\ ships' = Learn(ships, EsiTypes, DisplayLookups(zk_data, filter_result))
           /\ names' = Learn(names, EsiNames,
                             {t \in DisplayLookups(zk_data, filter_result) :
                                 get_ship_group_id(t) # None})
           /\ tickers' = IF victim.alliance_id # None
                         THEN Learn(tickers, EsiTickers(TRUE), victim.alliance_id)
                         ELSE Learn(tickers, EsiTickers(FALSE), victim.corporation_id)
    /\ pc' = "displayed"
    /\ UNCHANGED <<subscriptions, user_standings, esi_up, zk_data,
                   matched_subscriptions, loop_vars, lock_vars, all_subscriptions>>

DisplayRules ==
    {Not(Simple([tag |-> "IsNpc", flag |-> TRUE])),
     Targeted([tag |-> "Alliance", ids |-> {11, 99000001}], "Any"),
     Targeted([tag |-> "ShipGroup", ids |-> {485, 547}], "Attacker"),
     Targeted([tag |-> "Corporation", ids |-> {103, 1000125}], "Any")}

DisplayEvents ==
    {Event(a, v, s, Noon, 10, 1, FALSE, FALSE) :
        a \in SubSeqs(<<NaglfarPilot, BlueRifter, ThanatosPilot, NpcDread>>, 1, MaxAttackers),
        v \in {BlueRifterVictim, RevelationVictim, DrillVictim},
        s \in {Jita, Amarr}}

InitDisplay == InitWith(DisplayRules, DisplayEvents, BOOLEAN)

NextDisplay ==
    \/ process_killmail
    \/ build_killmail_embed

SpecDisplay == InitDisplay /\ [][NextDisplay]_vars

(***************************************************************************)
(* Properties.                                                             *)
(***************************************************************************)
\* The subscription under evaluation, its rule and what process_killmail reported.
TheSubscription == subscriptions[Guild][1]
Rule == TheSubscription.root_filter
Processed == pc = "processed"
Fired == matched_subscriptions # <<>>
Reported == matched_subscriptions[1].filter_result

\* Every node of a tree.
RECURSIVE SubNodes(_)
SubNodes(node) ==
    {node} \cup
    (CASE node.type = "Condition" -> {}
       [] node.type \in {"And", "Or"} -> UNION {SubNodes(node.nodes[i]) : i \in DOMAIN node.nodes}
       [] node.type = "Not" -> SubNodes(node.node))

\* The match tree and the veto tree of the rule, and every node evaluation visits.
MatchTree == partition_filters(Rule)[1]
VetoTree == partition_filters(Rule)[2]
EvaluatedNodes == UNION {SubNodes(t) : t \in MatchTree \cup VetoTree} \cup SubNodes(Rule)

\* C1: the subscription fires iff its match tree M matches and (M's matched
\* attackers minus the veto tree V's matched attackers is non-empty or M matched the
\* victim); the reported attackers are that difference and the reported
\* matched_victim is M's.
C1_FiresIffMatchMinusVeto ==
    Processed =>
        LET m == UNION {evaluate_filter_node(t, zk_data) : t \in MatchTree}
            v == UNION {evaluate_filter_node(t, zk_data) : t \in VetoTree}
            vetoed == UNION {r.matched_attackers : r \in v}
        IN  /\ Fired <=> \E r \in m : (r.matched_attackers \ vetoed) # {} \/ r.matched_victim
            /\ Fired => \A r \in m :
                  /\ Reported.matched_attackers = r.matched_attackers \ vetoed
                  /\ Reported.matched_victim = r.matched_victim

\* C1 witness: a rule with a match tree and a veto tree fired, the veto having removed
\* a matched attacker and left another.
C1_Witness ==
    /\ Processed /\ Fired
    /\ MatchTree # None /\ VetoTree # None
    /\ Reported.matched_attackers # {}
    /\ \E t \in MatchTree : \E r \in evaluate_filter_node(t, zk_data) :
           Reported.matched_attackers # r.matched_attackers

IsTargeted(node) == node.type = "Condition" /\ node.filter.kind = "Targeted"
IsShipGroupLeaf(node) == IsTargeted(node) /\ node.filter.tf.condition.tag = "ShipGroup"
IsPlainSimple(node) ==
    node.type = "Condition" /\ node.filter.kind = "Simple" /\ ~IsVetoLeaf(node)

\* The attackers of the event whose ship or weapon type resolves to a group in `groups`.
AttackersInGroups(groups) ==
    {i \in DOMAIN zk_data.killmail.attackers :
        \E t \in zk_data.killmail.attackers[i].ship_type_id
                 \cup zk_data.killmail.attackers[i].weapon_type_id :
            get_ship_group_id(t) \cap groups # {}}
VictimInGroups(groups) == get_ship_group_id(zk_data.killmail.victim.ship_type_id) \cap groups # {}

\* C2: a targeted leaf with target Attacker never reports matched_victim, one with
\* target Victim never reports a matched attacker, and the rule
\* Targeted{ShipGroup=[485], Attacker} does not fire on an event whose victim is in
\* group 485 while no attacker is.
C2_TargetScopeRespected ==
    (Processed /\ IsTargeted(Rule)) =>
        /\ (Rule.filter.tf.target = "Attacker" /\ Fired) => ~Reported.matched_victim
        /\ (Rule.filter.tf.target = "Victim" /\ Fired) => Reported.matched_attackers = {}
        /\ ( /\ Rule = Targeted([tag |-> "ShipGroup", ids |-> {485}], "Attacker")
             /\ VictimInGroups({485})
             /\ AttackersInGroups({485}) = {} ) => ~Fired

\* C2 witness: the capital-attacker rule met a capital victim killed by subcapitals
\* and did not fire.
C2_Witness ==
    /\ Processed /\ ~Fired
    /\ Rule = Targeted([tag |-> "ShipGroup", ids |-> {485}], "Attacker")
    /\ VictimInGroups({485})
    /\ zk_data.killmail.attackers # <<>>
    /\ AttackersInGroups({485}) = {}

\* The veto leaves of the rule, whether one of them lies under a Not, and the
\* attackers that are blue under one of them.
VetoLeaves == {n \in SubNodes(Rule) : IsVetoLeaf(n)}
VetoUnderNot ==
    \E n \in SubNodes(Rule) : n.type = "Not" /\ \E v \in SubNodes(n.node) : IsVetoLeaf(v)
BlueAttackers ==
    {i \in DOMAIN zk_data.killmail.attackers :
        \E leaf \in VetoLeaves :
            /\ leaf.filter.sf.synched_by_user_id \in DOMAIN user_standings
            /\ IsBlue(zk_data.killmail.attackers[i],
                      user_standings[leaf.filter.sf.synched_by_user_id],
                      leaf.filter.sf.source, leaf.filter.sf.source_entity_id)}
BlueKeys == {AttackerKey(zk_data.killmail.attackers[i]) : i \in BlueAttackers}

\* C3 (as claimed): for a rule whose veto leaves lie outside any Not, the reported
\* attackers are the match tree's matched attackers with every attacker that is blue
\* under one of the rule's veto leaves removed.
C3_ReportedIsMatchMinusBlues ==
    (Processed /\ Fired /\ VetoLeaves # {} /\ ~VetoUnderNot) =>
        \A t \in MatchTree : \A r \in evaluate_filter_node(t, zk_data) :
            Reported.matched_attackers = r.matched_attackers \ BlueKeys

C5_MatchedAttackersAreEventAttackers ==
    /\ \A n \in EvaluatedNodes : \A r \in evaluate_filter_node(n, zk_data) :
           r.matched_attackers \subseteq AttackerKeys(zk_data)
    /\ (Processed /\ Fired) => Reported.matched_attackers \subseteq AttackerKeys(zk_data)

\* C5 witness: a rule with a veto leaf fired and reported some but not all attackers
\* of the event.
C5_Witness ==
    /\ Processed /\ Fired
    /\ VetoLeaves # {}
    /\ Reported.matched_attackers # {}
    /\ Reported.matched_attackers # AttackerKeys(zk_data)

ChildResults(node) == [i \in DOMAIN node.nodes |-> evaluate_filter_node(node.nodes[i], zk_data)]
ChildAttackers(node) ==
    UNION {r.matched_attackers : r \in UNION {ChildResults(node)[i] : i \in DOMAIN node.nodes}}

\* C6: an And node matches only if every child matches; its matched attackers are
\* then the keys common to the children whose attacker set is non-empty, its
\* matched_victim is the conjunction of the children's flags, and it yields no match
\* when that attacker set is empty and that flag is false.
C6_AndIntersectsNonEmptySets ==
    \A n \in EvaluatedNodes : n.type = "And" =>
        LET res == ChildResults(n)
            all == \A i \in DOMAIN res : res[i] # None
            nonEmpty == {i \in DOMAIN res : \E r \in res[i] : r.matched_attackers # {}}
            att == {k \in ChildAttackers(n) :
                        \A i \in nonEmpty : \A r \in res[i] : k \in r.matched_attackers}
            vic == \A i \in DOMAIN res : \A r \in res[i] : r.matched_victim
            out == evaluate_filter_node(n, zk_data)
        IN  /\ out # None => all
            /\ out # None <=> (all /\ (att # {} \/ vic))
            /\ \A r \in out : r.matched_attackers = att /\ r.matched_victim = vic

\* C6 witness: an And rule fired whose children include one with an empty attacker
\* set and two with different non-empty sets, and it reported their intersection.
C6_Witness ==
    /\ Processed /\ Fired /\ Rule.type = "And" /\ VetoLeaves = {}
    /\ \E i, j, k \in DOMAIN Rule.nodes :
          \E a \in ChildResults(Rule)[i], b \in ChildResults(Rule)[j],
             c \in ChildResults(Rule)[k] :
              /\ a.matched_attackers = {}
              /\ b.matched_attackers # {}
              /\ c.matched_attackers # {}
              /\ b.matched_attackers # c.matched_attackers
              /\ Reported.matched_attackers = b.matched_attackers \cap c.matched_attackers

\* C7: an Or node matches iff some child matches; its matched attackers are then the
\* union of the attacker sets of all matching children and its matched_victim is the
\* disjunction of their flags.
C7_OrUnitesAllMatchingChildren ==
    \A n \in EvaluatedNodes : n.type = "Or" =>
        LET res == ChildResults(n)
            out == evaluate_filter_node(n, zk_data)
        IN  /\ out # None <=> \E i \in DOMAIN res : res[i] # None
            /\ \A r \in out :
                  /\ r.matched_attackers = ChildAttackers(n)
                  /\ r.matched_victim = \E i \in DOMAIN res : \E c \in res[i] : c.matched_victim

\* C7 witness: an Or rule fired where a matching child after the first matching one
\* brought attackers the first did not have, and they are reported.
C7_Witness ==
    /\ Processed /\ Fired /\ Rule.type = "Or" /\ VetoLeaves = {}
    /\ \E i, j \in DOMAIN Rule.nodes :
          /\ i < j
          /\ \A h \in 1..(i - 1) : ChildResults(Rule)[h] = None
          /\ \E a \in ChildResults(Rule)[i], b \in ChildResults(Rule)[j] :
                /\ ~(b.matched_attackers \subseteq a.matched_attackers)
                /\ b.matched_attackers \subseteq Reported.matched_attackers

\* C8: a Simple predicate other than the veto, when it matches, yields a result with
\* matched_victim true and no matched attackers.
C8_SimpleMatchMarksVictimOnly ==
    IsPlainSimple(Rule) =>
        \A r \in evaluate_filter(Rule.filter, zk_data) :
            r.matched_victim /\ r.matched_attackers = {}

\* C8 witness: a Simple leaf matched an event that has attackers.
C8_Witness ==
    /\ Processed /\ IsPlainSimple(Rule)
    /\ evaluate_filter(Rule.filter, zk_data) # None
    /\ zk_data.killmail.attackers # <<>>

\* C9 (as claimed): a rule that is a single matching Simple leaf reports every
\* attacker of the event.
C9_SimpleMatchReportsAllAttackers ==
    (Processed /\ IsPlainSimple(Rule) /\ Fired) =>
        Reported.matched_attackers = AttackerKeys(zk_data)

\* C9 (amended): a matching Simple leaf marks the victim and no attacker, so a rule
\* that is a single Simple leaf fires exactly when the leaf matches and then reports
\* matched_victim with an empty attacker set.
C9_SimpleRuleReportsNoAttackers ==
    (Processed /\ IsPlainSimple(Rule)) =>
        /\ Fired <=> evaluate_filter(Rule.filter, zk_data) # None
        /\ Fired => Reported.matched_victim /\ Reported.matched_attackers = {}

\* C9 witness: a single Simple leaf fired on an event with attackers and reported none.
C9_Witness ==
    /\ Processed /\ IsPlainSimple(Rule) /\ Fired
    /\ AttackerKeys(zk_data) # {}
    /\ Reported.matched_attackers = {}

\* The rule with its veto leaves taken out: None when nothing but veto leaves is left
\* of a node, the node without them otherwise.
RECURSIVE StripSeq(_)
RECURSIVE Strip(_)
StripSeq(nodes) ==
    IF nodes = <<>> THEN <<>>
    ELSE LET head == Strip(nodes[1])
         IN  (IF head = None THEN <<>> ELSE <<CHOOSE n \in head : TRUE>>)
                 \o StripSeq(Tail(nodes))
Strip(node) ==
    CASE node.type = "Condition" -> IF IsVetoLeaf(node) THEN None ELSE Some(node)
      [] node.type \in {"And", "Or"} ->
            LET kept == StripSeq(node.nodes)
            IN  IF kept = <<>> /\ node.nodes # <<>> THEN None
                ELSE Some([type |-> node.type, nodes |-> kept])
      [] node.type = "Not" ->
            LET inner == Strip(node.node)
            IN  IF inner = None THEN None
                ELSE Some([type |-> "Not", node |-> CHOOSE n \in inner : TRUE])
WithoutVeto == UNION {evaluate_filter_node(n, zk_data) : n \in Strip(Rule)}

\* C10 (as claimed): a veto leaf never adds to what a rule reports: whenever a rule
\* fires, the same rule without its veto leaves matches the event too, with every
\* reported attacker among its matched attackers and with matched_victim if that is
\* reported.
C10_VetoNeverAddsMatches ==
    (Processed /\ Fired /\ VetoLeaves # {}) =>
        /\ WithoutVeto # {}
        /\ \A r \in WithoutVeto :
              /\ Reported.matched_attackers \subseteq r.matched_attackers
              /\ Reported.matched_victim => r.matched_victim

\* The rule under a double negation, evaluated on the event.
HasVeto(node) == \E n \in SubNodes(node) : IsVetoLeaf(n)
DoubleNegation == evaluate_filter_node(Not(Not(Rule)), zk_data)
Plain == evaluate_filter_node(Rule, zk_data)

\* C11 (as claimed): for a node n without veto predicate, Not(Not(n)) and n both match
\* or both fail, and when they match they yield the same matched_attackers and
\* matched_victim.
C11_DoubleNegationIsIdentity ==
    ~HasVeto(Rule) =>
        /\ DoubleNegation = None <=> Plain = None
        /\ \A d \in DoubleNegation : \A r \in Plain :
              /\ d.matched_attackers = r.matched_attackers
              /\ d.matched_victim = r.matched_victim

\* C11 (amended): for a node n without veto predicate, Not(Not(n)) matches exactly
\* when n matches, and its result then marks every attacker of the event and the
\* victim, whatever n itself marked.
C11_DoubleNegationMatchesAlike ==
    ~HasVeto(Rule) =>
        /\ DoubleNegation = None <=> Plain = None
        /\ \A d \in DoubleNegation :
              /\ d.matched_attackers = AttackerKeys(zk_data)
              /\ d.matched_victim

\* C11 witness: a rule without veto matched some but not all attackers and not the
\* victim, and its double negation matched too.
C11_Witness ==
    /\ Processed /\ ~HasVeto(Rule) /\ DoubleNegation # None
    /\ \E r \in Plain :
          /\ r.matched_attackers # {}
          /\ r.matched_attackers # AttackerKeys(zk_data)
          /\ ~r.matched_victim

(***************************************************************************)
(* The run loop: delivery failures and the store.                          *)
(***************************************************************************)
Attempted == Len(attempts') = Len(attempts) + 1
LatestAttempt == attempts[Len(attempts)]
ChannelGone(subs, channel_id) ==
    \A i \in DOMAIN subs : subs[i].action.channel_id # channel_id
IsCleanupResult(result) == result \in {"forbidden", "not_found"}

C13_OtherFailuresLeaveStore ==
    [][(Attempted /\ LatestAttempt'.result # "ok"
                  /\ ~IsCleanupResult(LatestAttempt'.result)) =>
          (subscriptions' = subscriptions /\ disk' = disk)]_vars

\* A channel id did not parse and another delivery failed with a server error or in
\* transport, and the subscriptions concerned are still in the store and the file.
C13_Witness ==
    \E i, j \in DOMAIN attempts :
        /\ attempts[i].result = "invalid_channel"
        /\ attempts[j].result \in {"server_error", "transport"}
        /\ \A k \in {i, j} :
              /\ ~ChannelGone(subscriptions[attempts[k].guild_id], attempts[k].channel_id)
              /\ ~ChannelGone(disk[attempts[k].guild_id], attempts[k].channel_id)

(***************************************************************************)
(* The run loop: pings.                                                    *)
(***************************************************************************)
Pinged(i) == attempts[i].content # None

\* C14: two messages with a ping prefix for the same channel are more than 300
\* seconds apart, whichever subscriptions they come from, so that no window of 300
\* seconds holds two of them.
C14_OnePingPerWindow ==
    \A i, j \in DOMAIN attempts :
        (i < j /\ Pinged(i) /\ Pinged(j) /\ attempts[i].channel = attempts[j].channel)
            => attempts[j].time - attempts[i].time > PingInterval

\* A channel was pinged, a message of another subscription with a ping policy went
\* to it within the window without the prefix, and the channel was pinged again
\* later.
C14_Witness ==
    \E i, k, j \in DOMAIN attempts :
        /\ i < k /\ i < j
        /\ Pinged(i) /\ Pinged(j) /\ ~Pinged(k)
        /\ attempts[i].channel = attempts[j].channel
        /\ attempts[i].channel = attempts[k].channel
        /\ attempts[k].id # attempts[i].id
        /\ attempts[k].result = "ok"
        /\ attempts[k].time - attempts[i].time <= PingInterval

(***************************************************************************)
(* The run loop: order of events.                                          *)
(***************************************************************************)
\* C15: listen is called only when no match of the event before is left to deliver,
\* and the deliveries are made in the order in which their events arrived.
C15_EventsHandledInOrder ==
    /\ pc \in {"listen", "sleep", "received"} => matched_subscriptions = <<>>
    /\ \A i, j \in DOMAIN attempts : i < j => attempts[i].event <= attempts[j].event
    /\ \A i \in DOMAIN attempts : attempts[i].event <= polled

\* Two events were delivered, each to more than one subscription, and the loop is back
\* at listen.
C15_Witness ==
    /\ pc = "listen"
    /\ \E i, j \in DOMAIN attempts :
          /\ i + 1 < j
          /\ attempts[i].event = attempts[i + 1].event
          /\ attempts[i].event < attempts[j].event

(***************************************************************************)
(* The run loop: failed polls.                                             *)
(***************************************************************************)
\* C16: after a poll that failed (the request, the status, an HTML body, the JSON) no
\* subscription is evaluated and nothing is delivered for it, the loop goes on with
\* the 5 second sleep, and is back at listen only once it has slept; after a poll
\* that brought an event or none, the loop comes back to listen without sleeping.
C16_FailedPollSleepsThenPollsAgain ==
    /\ last_poll \in ListenErrors =>
          /\ pc \in {"sleep", "listen"}
          /\ matched_subscriptions = <<>>
          /\ \A i \in DOMAIN attempts : attempts[i].event < polled
          /\ pc = "sleep" => (~slept /\ ENABLED sleep)
          /\ pc = "listen" => slept
    /\ last_poll \in {"idle", "event"} => ~slept

\* An event was delivered, the next poll failed on an HTML body, and the loop is back
\* at listen after its sleep.
C16_Witness ==
    /\ last_poll = "html"
    /\ pc = "listen"
    /\ slept
    /\ attempts # <<>>
    /\ clock >= RetrySleep

(***************************************************************************)
(* The run loop: one subscription's failure and the others.                *)
(***************************************************************************)
\* C17: process_killmail reports every subscription of the store that fires on the
\* event, whatever became of the subscriptions evaluated before it, and each
\* delivery, whatever its outcome, hands over to the next match of the event.
C17_FailureDoesNotStopOthers ==
    [][/\ (pc = "received" /\ pc' = "processed") =>
             \A g \in DOMAIN subscriptions : \A i \in DOMAIN subscriptions[g] :
                 EvaluateSubscription(subscriptions[g][i], zk_data) # None =>
                    \E k \in DOMAIN matched_subscriptions' :
                       /\ matched_subscriptions'[k].guild_id = g
                       /\ matched_subscriptions'[k].subscription = subscriptions[g][i]
       /\ Attempted =>
             /\ matched_subscriptions # <<>>
             /\ LatestAttempt'.guild_id = Head(matched_subscriptions).guild_id
             /\ LatestAttempt'.id = Head(matched_subscriptions).subscription.id
             /\ matched_subscriptions' = Tail(matched_subscriptions)]_vars

\* For one event a delivery failed and a later one was made all the same, and the
\* subscription that follows the one with the malformed security range was delivered.
C17_Witness ==
    \E i, j, k \in DOMAIN attempts :
        /\ i < j
        /\ attempts[i].event = attempts[j].event
        /\ attempts[i].result # "ok"
        /\ attempts[k].event = attempts[i].event
        /\ attempts[k].id = "day"

(***************************************************************************)
(* The writers of the subscription map.                                    *)
(***************************************************************************)
\* C18 (as stated): whoever holds the write lock of the subscription map holds the
\* file lock, taken before it, and keeps both until the file is rewritten; nobody
\* waits for the file lock with a map lock in hand.
C18_FileLockBeforeMapLock ==
    \A t \in Writers :
        /\ map_lock = Some(t) => file_lock = Some(t)
        /\ task_pc[t] \in {"has_map", "saved"} => map_lock = Some(t)
        /\ (task_pc[t] = "idle" /\ UsesFileLock(t)) => map_lock # Some(t)

(***************************************************************************)
(* The entity displayed.                                                   *)
(***************************************************************************)
Listed(group_id) == \E i \in DOMAIN SHIP_GROUP_PRIORITY : SHIP_GROUP_PRIORITY[i] = group_id
NotAfter(g, h) ==
    \E i, j \in DOMAIN SHIP_GROUP_PRIORITY :
        SHIP_GROUP_PRIORITY[i] = g /\ SHIP_GROUP_PRIORITY[j] = h /\ i <= j

\* The matched actors whose ship group resolves: attackers by their ship, else their
\* weapon, in green, and the victim in red.
Candidates ==
    {[color |-> "Green", type_id |-> t, group_id |-> g] :
        <<t, g>> \in {<<t, g>> \in (DOMAIN EsiTypes) \X Range(EsiTypes) :
            /\ g \in get_ship_group_id(t)
            /\ \E a \in Range(zk_data.killmail.attackers) :
                  /\ AttackerKey(a) \in Reported.matched_attackers
                  /\ t \in DisplayType(a)}}
    \cup {[color |-> "Red", type_id |-> zk_data.killmail.victim.ship_type_id, group_id |-> g] :
            g \in {g \in get_ship_group_id(zk_data.killmail.victim.ship_type_id) :
                      Reported.matched_victim}}

\* The matched actors whose ship group does not resolve.
Unresolved ==
    {a \in Range(zk_data.killmail.attackers) :
        /\ AttackerKey(a) \in Reported.matched_attackers
        /\ \A t \in DisplayType(a) : get_ship_group_id(t) = None}
    \cup {v \in {victim_as_attacker(zk_data.killmail.victim)} :
            /\ Reported.matched_victim
            /\ get_ship_group_id(zk_data.killmail.victim.ship_type_id) = None}

\* C19: the entity displayed is one of the candidates, in its color, and no candidate
\* of a listed group comes before its group in the priority list (so it is of a
\* listed group whenever a candidate is); nothing is displayed only when there is no
\* candidate, and an actor whose group does not resolve is never displayed.
C19_DisplayedHasBestPriority ==
    pc = "displayed" =>
        /\ displayed = None <=> Candidates = {}
        /\ \A e \in displayed :
              /\ [color |-> e.color, type_id |-> e.type_id, group_id |-> e.group_id]
                    \in Candidates
              /\ \A c \in Candidates : Listed(c.group_id) => NotAfter(e.group_id, c.group_id)

\* An attacker of a listed group is displayed, while a candidate of a group that is
\* not listed and a matched actor whose group does not resolve were there too.
C19_Witness ==
    /\ pc = "displayed"
    /\ \E e \in displayed :
          /\ Listed(e.group_id)
          /\ e.color = "Green"
          /\ \E c \in Candidates : ~Listed(c.group_id)
    /\ Unresolved # {}

(***************************************************************************)
(* The time of day.                                                        *)
(***************************************************************************)
IsTimeRange(node) ==
    node.type = "Condition" /\ node.filter.kind = "Simple" /\ node.filter.sf.tag = "TimeRange"

\* The hour of the day in UTC of a timestamp written with an offset (in hours).
UtcHour(time) == (time.hour - time.offset + 24) % 24

\* C20 (as stated): a time-of-day rule fires exactly when the timestamp parses and
\* its hour in UTC lies between start and end, or, start being after end, at or
\* after start or at or before end.
C20_TimeRangeOnUtcHour ==
    (Processed /\ IsTimeRange(Rule)) =>
        LET sf == Rule.filter.sf
        IN  Fired <=>
               \E time \in zk_data.killmail.killmail_time :
                  IF sf.start <= sf.end
                  THEN sf.start <= UtcHour(time) /\ UtcHour(time) <= sf.end
                  ELSE UtcHour(time) >= sf.start \/ UtcHour(time) <= sf.end

(***************************************************************************)
(* The run loop: when a message is given its prefix.                       *)
(***************************************************************************)
\* The attempt was made for a subscription with a ping policy, to a channel, for an
\* event that passed the policy's age gate.
Eligible(i) ==
    /\ attempts[i].channel # None
    /\ \E pt \in attempts[i].ping_type : WithinPingDelay(pt, attempts[i].kill_age)

\* The pinged attempts to the channel of attempt i that were made before it.
PingsBefore(i) ==
    {k \in 1..(i - 1) : Pinged(k) /\ attempts[k].channel = attempts[i].channel}

\* The seconds between attempt i and the last ping to its channel before it.
SinceLastPing(i) ==
    attempts[i].time - attempts[CHOOSE k \in PingsBefore(i) : \A l \in PingsBefore(i) : l <= k].time

\* C21 (as stated): an eligible message carries the prefix whenever its channel was
\* never pinged or 300 seconds or more, exactly 300 included, have passed since the
\* last ping to it.
C21_PingAtThreeHundredSeconds ==
    \A i \in DOMAIN attempts :
        (Eligible(i) /\ (PingsBefore(i) = {} \/ SinceLastPing(i) >= PingInterval))
            => Pinged(i)

\* C21 (amended): a message carries the prefix exactly when it is eligible and its
\* channel was never pinged or more than 300 seconds have passed since the last ping
\* to it; at exactly 300 seconds it goes without.
C21_PingAfterThreeHundredSeconds ==
    \A i \in DOMAIN attempts :
        Pinged(i) <=> (Eligible(i) /\ (PingsBefore(i) = {} \/ SinceLastPing(i) > PingInterval))

\* A channel was pinged and an eligible message to it exactly 300 seconds later went
\* without the prefix.
C21_Witness ==
    \E i \in DOMAIN attempts :
        Eligible(i) /\ ~Pinged(i) /\ PingsBefore(i) # {} /\ SinceLastPing(i) = PingInterval

\* ---- C22 ----------------------------------------------------------------------------

\* The pings to the channel of attempt i, before it, that were delivered.
DeliveredPingsBefore(i) == {k \in PingsBefore(i) : attempts[k].result = "ok"}

\* C22: the last-ping time of a channel advances only when a ping-prefixed message was
\* delivered: an eligible message to a channel whose earlier pings all failed to be
\* delivered still carries the ping prefix.
C22_FailedPingKeepsWindow ==
    \A i \in DOMAIN attempts :
        (Eligible(i) /\ DeliveredPingsBefore(i) = {}) => Pinged(i)

\* ---- C23 ----------------------------------------------------------------------------

\* Attempt j follows a 403/404 of attempt i and goes to the same destination.
AfterCleanup(i, j) ==
    /\ i < j
    /\ IsCleanupResult(attempts[i].result)
    /\ attempts[j].channel_id = attempts[i].channel_id

\* C23 (as stated): once the cleanup of a channel has completed, no delivery to that
\* channel is attempted any more, neither for a later event nor for the remaining
\* matched subscriptions of the current event.
C23_NoAttemptAfterCleanup ==
    \A i, j \in DOMAIN attempts : ~AfterCleanup(i, j)

\* C23 (amended): once the cleanup of a channel has completed, a delivery to that
\* channel for the same guild is attempted only for the remaining matched
\* subscriptions of the event whose delivery failed, never for a later event.
C23_NoAttemptForLaterEvents ==
    \A i, j \in DOMAIN attempts :
        (AfterCleanup(i, j) /\ attempts[j].guild_id = attempts[i].guild_id)
            => attempts[j].event = attempts[i].event

\* A delivery got a 403/404, another matched subscription of the same event was still
\* attempted on the channel, and a later event has gone through all its deliveries.
C23_Witness ==
    /\ \E i, j \in DOMAIN attempts :
          /\ AfterCleanup(i, j)
          /\ attempts[j].guild_id = attempts[i].guild_id
          /\ polled > attempts[i].event
    /\ pc = "processed"
    /\ matched_subscriptions = <<>>

\* ---- C25 ----------------------------------------------------------------------------

\* C25: a subscription created without any filter has the root And([]) and fires on
\* every event.
C25_EmptyRuleFiresOnEveryEvent ==
    (Processed /\ Rule = And(<<>>)) => Fired

\* ---- C26 ----------------------------------------------------------------------------

\* The rule is an And whose children are all targeted leaves.
IsTargetedLeaf(node) == node.type = "Condition" /\ node.filter.kind = "Targeted"
AndOfTargeted ==
    /\ Rule.type = "And"
    /\ Len(Rule.nodes) >= 2
    /\ \A i \in DOMAIN Rule.nodes : IsTargetedLeaf(Rule.nodes[i])

\* The attacker of key k satisfies the condition of the targeted leaf.
Satisfies(key, leaf) ==
    \E a \in AttackerOfKey(zk_data, key) : condition_checker(leaf.filter.tf.condition, a)

\* Some attacker of the event was matched by the targeted leaf.
MatchedSomeAttacker(leaf) ==
    /\ is_attacker(leaf.filter.tf.target)
    /\ \E i \in DOMAIN zk_data.killmail.attackers :
          condition_checker(leaf.filter.tf.condition, zk_data.killmail.attackers[i])

\* C26 (as stated): for an And of targeted leaves, every reported attacker satisfies
\* the condition of every child; no attacker is reported that satisfies only some
\* children while another child was satisfied by the victim alone.
C26_ReportedSatisfyEveryChild ==
    (Processed /\ Fired /\ AndOfTargeted) =>
        \A key \in Reported.matched_attackers :
            \A i \in DOMAIN Rule.nodes : Satisfies(key, Rule.nodes[i])

\* C26 (amended): for an And of targeted leaves, every reported attacker satisfies the
\* condition of every child that matched some attacker; a child matched by the victim
\* alone constrains nobody.
C26_ReportedSatisfyAttackerChildren ==
    (Processed /\ Fired /\ AndOfTargeted) =>
        \A key \in Reported.matched_attackers :
            \A i \in DOMAIN Rule.nodes :
                MatchedSomeAttacker(Rule.nodes[i]) => Satisfies(key, Rule.nodes[i])

\* An And of targeted leaves fired and reports an attacker that does not satisfy a
\* child which the victim alone matched, next to a child that did match attackers.
C26_Witness ==
    /\ Processed /\ Fired /\ AndOfTargeted
    /\ \E key \in Reported.matched_attackers :
          \E i, j \in DOMAIN Rule.nodes :
              /\ ~MatchedSomeAttacker(Rule.nodes[i])
              /\ ~Satisfies(key, Rule.nodes[i])
              /\ MatchedSomeAttacker(Rule.nodes[j])
              /\ Satisfies(key, Rule.nodes[j])

\* ---- C27 ----------------------------------------------------------------------------

\* The rule is an Or whose children are all match leaves.
OrOfMatchLeaves ==
    /\ Rule.type = "Or"
    /\ Len(Rule.nodes) >= 2
    /\ \A i \in DOMAIN Rule.nodes : Rule.nodes[i].type = "Condition" /\ ~IsVetoLeaf(Rule.nodes[i])

\* The results of the children that match, in the order of the children.
MatchingChildren ==
    Collect([i \in DOMAIN Rule.nodes |-> evaluate_filter_node(Rule.nodes[i], zk_data)])

\* C27: the min_pilots and the light_year_range an Or reports are each taken from the
\* first matching child that carries one, even when an earlier matching child
\* carries none.
C27_OrTakesFirstNonEmptyMetadata ==
    (Processed /\ Fired /\ OrOfMatchLeaves) =>
        /\ Reported.min_pilots = FirstMinPilots(MatchingChildren)
        /\ Reported.light_year_range = FirstLightYearRange(MatchingChildren)

\* ---- C29 ----------------------------------------------------------------------------

\* C29: for the same event, the same matched set and the same enrichment state the
\* same entity is selected for display, whatever the order in which the matched
\* keys are visited, ties on priority included.
C29_SelectionIsDeterministic ==
    (Processed /\ Fired) =>
        \A o1, o2 \in HashOrders(Reported.matched_attackers) :
            select_best_entity_for_display(zk_data, o1, Reported.matched_victim)
                = select_best_entity_for_display(zk_data, o2, Reported.matched_victim)

\* ---- C30 ----------------------------------------------------------------------------

\* Every entry of `old` is in `new` with its value, and what `new` has more is what
\* the catalog answers.
GrownFrom(old, new, catalog) ==
    /\ \A id \in DOMAIN old : id \in DOMAIN new /\ new[id] = old[id]
    /\ \A id \in DOMAIN new \ DOMAIN old : id \in DOMAIN catalog /\ new[id] = catalog[id]

\* C30: the enrichment maps only grow: an entry, once present, stays with its value;
\* the lookup of a present id returns the stored value whether or not the catalog can
\* be reached; and while the catalog's calls fail the maps stay as they are.
C30_EnrichmentMapsOnlyGrow ==
    [][/\ GrownFrom(ships, ships', EsiTypes)
       /\ GrownFrom(systems, systems', EsiSystems)
       /\ GrownFrom(names, names', EsiNames)
       /\ GrownFrom(tickers, tickers', EsiTickers(TRUE) @@ EsiTickers(FALSE))
       /\ \A id \in DOMAIN ships : get_ship_group_id(id) = Some(ships[id])
       /\ \A id \in DOMAIN systems : get_system(id) = Some(systems[id])
       /\ \A id \in DOMAIN names : get_name(id) = Some(names[id])
       /\ \A id \in DOMAIN tickers, is_alliance \in BOOLEAN :
             get_ticker(id, is_alliance) = Some(tickers[id])
       /\ ~esi_up => (ships' = ships /\ systems' = systems /\ names' = names
                      /\ tickers' = tickers)]_vars

\* An embed was built with the catalog in reach and each of the four maps holds, next
\* to the entries it was loaded with, an entry learned from the catalog.
C30_Witness ==
    /\ pc = "displayed"
    /\ esi_up
    /\ {Naglfar, Rifter} \subseteq DOMAIN ships /\ DOMAIN ships # {Naglfar, Rifter}
    /\ Jita \in DOMAIN systems /\ DOMAIN systems # {Jita}
    /\ {Naglfar, Rifter} \subseteq DOMAIN names /\ DOMAIN names # {Naglfar, Rifter}
    /\ 11 \in DOMAIN tickers /\ DOMAIN tickers # {11}

(***************************************************************************)
(* The commands /subscribe and /unsubscribe, issued with any id from any   *)
(* channel of the guild.  Each changes the map and rewrites the file under *)
(* the map's write lock, so each is one step.                              *)
(***************************************************************************)
CommandIds == {"caps", "all"}
CommandChannels == {"100", "200"}

\* SubscribeCommand: entry(guild_id).or_default(), retain, push, save.
subscribe(id, channel_id) ==
    /\ LET guild_subs == IF Guild \in DOMAIN subscriptions THEN subscriptions[Guild] ELSE <<>>
           after == Append(RetainOthers(guild_subs, id, channel_id),
                           RunSubscription(id, Valuable, channel_id, None))
       IN  /\ subscriptions' = [g \in DOMAIN subscriptions \cup {Guild} |->
                                   IF g = Guild THEN after ELSE subscriptions[g]]
           /\ \E written \in BOOLEAN :
                 disk' = save_subscriptions_for_guild(disk, Guild, after, written)
    /\ UNCHANGED <<ships, systems, names, tickers, user_standings, esi_up, zk_data, pc,
                   matched_subscriptions, clock, last_ping_times, attempts, polled, last_poll,
                   slept, displayed, lock_vars, all_subscriptions>>

\* UnsubscribeCommand: get_mut(guild_id), retain, save if the list got shorter.
unsubscribe(id, channel_id) ==
    /\ IF Guild \in DOMAIN subscriptions
       THEN LET guild_subs == subscriptions[Guild]
                after == RetainOthers(guild_subs, id, channel_id)
            IN  /\ subscriptions' = [subscriptions EXCEPT ![Guild] = after]
                /\ \E written \in BOOLEAN :
                      /\ Len(after) = Len(guild_subs) => ~written
                      /\ disk' = save_subscriptions_for_guild(disk, Guild, after, written)
       ELSE UNCHANGED <<subscriptions, disk>>
    /\ UNCHANGED <<ships, systems, names, tickers, user_standings, esi_up, zk_data, pc,
                   matched_subscriptions, clock, last_ping_times, attempts, polled, last_poll,
                   slept, displayed, lock_vars, all_subscriptions>>

\* The store as loaded: no file at all, or the files of LockStore.
InitCommands ==
    /\ subscriptions \in {[g \in {} |-> <<>>], LockStore}
    /\ ships = (Naglfar :> 485) @@ (Rifter :> 25)
    /\ systems = (Jita :> EsiSystems[Jita])
    /\ names = (Naglfar :> EsiNames[Naglfar]) @@ (Rifter :> EsiNames[Rifter])
    /\ user_standings = Standings
    /\ esi_up = FALSE
    /\ zk_data = None
    /\ pc = "listen"
    /\ matched_subscriptions = <<>>
    /\ polled = 0
    /\ last_poll = "none"
    /\ Quiet

NextCommands ==
    \E id \in CommandIds, channel_id \in CommandChannels :
        \/ subscribe(id, channel_id)
        \/ unsubscribe(id, channel_id)

SpecCommands == InitCommands /\ [][NextCommands]_vars

\* ---- C28 ----------------------------------------------------------------------------

\* Two places of a guild's list hold subscriptions of the same id.
SameId(guild_subs, i, j) == i # j /\ guild_subs[i].id = guild_subs[j].id

\* C28 (as stated): within one guild no two subscriptions share an id, whatever
\* commands were issued from whatever channels.
C28_IdUniqueInGuild ==
    \A g \in DOMAIN subscriptions :
        \A i, j \in DOMAIN subscriptions[g] : ~SameId(subscriptions[g], i, j)

\* C28 (amended): within one guild no two subscriptions share both the id and the
\* channel; the same id may be held once by each channel.
C28_IdUniqueInChannel ==
    \A g \in DOMAIN subscriptions :
        \A i, j \in DOMAIN subscriptions[g] :
            SameId(subscriptions[g], i, j) =>
                subscriptions[g][i].action.channel_id # subscriptions[g][j].action.channel_id

\* A guild holds the same id in two channels, after a /subscribe that replaced the
\* subscription of that id in its own channel.
C28_Witness ==
    \E g \in DOMAIN subscriptions :
        /\ \E i, j \in DOMAIN subscriptions[g] : SameId(subscriptions[g], i, j)
        /\ \E i \in DOMAIN subscriptions[g] :
              /\ subscriptions[g][i].id = "caps"
              /\ subscriptions[g][i].action.channel_id = "100"
              /\ subscriptions[g][i].root_filter = Valuable

(***************************************************************************)
(* process_killmail in its two steps: the clone of the map under the read  *)
(* lock, and the evaluation of the clone, with the writers of the map in   *)
(* between.  The writers run until the evaluation has returned.            *)
(***************************************************************************)
\* Mutant of EvaluatedStore: the rules are read from the map itself.
EvaluatedStore_Live(cloned, current) == current

\* for (guild_id, subscriptions) in all_subscriptions.iter()
EvaluatedStore(cloned, current) == cloned

\* let all_subscriptions = { subscriptions.read().unwrap().clone() }: the read lock
\* is granted when no writer holds the lock, and released with the block.
clone_subscriptions ==
    /\ pc = "received"
    /\ map_lock = None
    /\ all_subscriptions' = Some(subscriptions)
    /\ pc' = "cloned"
    /\ UNCHANGED <<subscriptions, ships, systems, names, tickers, user_standings, esi_up, zk_data,
                   matched_subscriptions, loop_vars, displayed, lock_vars>>

\* The loop over the clone, to the return of matched_subscriptions.
evaluate_subscriptions ==
    /\ pc = "cloned"
    /\ \E cloned \in all_subscriptions :
          LET store == EvaluatedStore(cloned, subscriptions)
          IN  \E order \in GuildOrders(DOMAIN store) :
                 /\ matched_subscriptions' = MatchesInOrder(order, store, zk_data)
                 /\ LET touched == LookupsInOrder(order, store, zk_data)
                    IN  /\ ships' = Learn(ships, EsiTypes, touched.types)
                        /\ systems' = Learn(systems, EsiSystems, touched.systems)
                        /\ names' = Learn(names, EsiNames, touched.names)
    /\ pc' = "processed"
    /\ UNCHANGED <<subscriptions, tickers, user_standings, esi_up, zk_data, loop_vars, displayed,
                   lock_vars, all_subscriptions>>

InitSnapshot ==
    /\ subscriptions = LockStore
    /\ ships = (Naglfar :> 485) @@ (Rifter :> 25)
    /\ systems = (Jita :> EsiSystems[Jita])
    /\ names = (Naglfar :> EsiNames[Naglfar]) @@ (Rifter :> EsiNames[Rifter])
    /\ user_standings = Standings
    /\ esi_up = FALSE
    /\ zk_data \in RunEvents
    /\ pc = "received"
    /\ matched_subscriptions = <<>>
    /\ polled = 1
    /\ last_poll = "event"
    /\ Quiet

NextSnapshot ==
    \/ clone_subscriptions
    \/ evaluate_subscriptions
    \/ pc # "processed" /\ NextLocks

SpecSnapshot == InitSnapshot /\ [][NextSnapshot]_vars

\* ---- C24 ----------------------------------------------------------------------------

\* The clone process_killmail took.
Cloned == CHOOSE cloned \in all_subscriptions : TRUE

\* A writer may take the map's write lock as far as the other writers go.
MayWrite(t) ==
    /\ \/ task_pc[t] = "has_file"
       \/ task_pc[t] = "idle" /\ ~UsesFileLock(t)
    /\ map_lock = None

\* C24: the rules are evaluated on the clone of the map taken at the start of
\* process_killmail: what is matched is what the clone gives, whatever the writers did
\* to the map since.  The evaluation holds no lock: while the clone is evaluated a
\* writer that may take the write lock as far as the other writers go can take it,
\* and the evaluation returns whoever holds the locks, leaving them as they are.
C24_EvaluationOnSnapshot ==
    [][/\ pc = "cloned" => \A t \in Writers : MayWrite(t) => ENABLED write_map(t)
       /\ (pc = "cloned" /\ pc' = "processed") =>
            /\ \E order \in GuildOrders(DOMAIN Cloned) :
                  matched_subscriptions' = MatchesInOrder(order, Cloned, zk_data)
            /\ UNCHANGED <<subscriptions, lock_vars>>]_vars

\* The evaluation returned a match for a subscription that a writer changed or
\* removed from the map after the clone was taken, and it returned while a writer
\* held the write lock.
C24_Witness ==
    /\ Processed
    /\ Fired
    /\ map_lock # None
    /\ all_subscriptions # Some(subscriptions)
    /\ \E i \in DOMAIN matched_subscriptions :
          \/ Guild \notin DOMAIN subscriptions
          \/ \A k \in DOMAIN subscriptions[Guild] :
                subscriptions[Guild][k] # matched_subscriptions[i].subscription


====
